---------------------------- MODULE Spec2Model ----------------------------
(***************************************************************************)
(* State-machine model of the OpenAPI -> proto3 converter                  *)
(* (duh-rpc/openapi-proto.go): Convert, BuildMessages, buildMessage,       *)
(* buildNestedMessage, buildEnum, ProtoType, the naming helpers and the    *)
(* dependency-graph classification.                                        *)
(*                                                                         *)
(* Strings of the program that are inspected character by character        *)
(* (schema names, property names, enum literals, x-proto-number values)    *)
(* are sequences of one-character strings; strings that are only compared  *)
(* (types, formats, error messages) are TLA+ strings.                      *)
(***************************************************************************)
EXTENDS Integers, Sequences, FiniteSets, TLC

-----------------------------------------------------------------------------
(* Characters                                                              *)

LowerChars ==
    << "a","b","c","d","e","f","g","h","i","j","k","l","m",
       "n","o","p","q","r","s","t","u","v","w","x","y","z" >>

UpperChars ==
    << "A","B","C","D","E","F","G","H","I","J","K","L","M",
       "N","O","P","Q","R","S","T","U","V","W","X","Y","Z" >>

DigitChars ==
    << "0","1","2","3","4","5","6","7","8","9" >>

Range(s) == { s[i] : i \in DOMAIN s }

IndexIn(c, s) == CHOOSE i \in DOMAIN s : s[i] = c

\* unicode.IsUpper / unicode.IsLower / unicode.ToUpper / unicode.ToLower
IsUpper(c) == c \in Range(UpperChars)

IsLower(c) == c \in Range(LowerChars)

IsDigit(c) == c \in Range(DigitChars)

ToUpperChar(c) == IF IsLower(c) THEN UpperChars[IndexIn(c, LowerChars)] ELSE c

ToLowerChar(c) == IF IsUpper(c) THEN LowerChars[IndexIn(c, UpperChars)] ELSE c

\* A character outside ASCII: U+00E9, two bytes in UTF-8.  A Go string is a
\* sequence of bytes, and a range loop over it yields each character with
\* the index of its first byte.
eAcute == "e'"

\* utf8.RuneLen
RuneLen(c) == IF c = eAcute THEN 2 ELSE 1

\* len(s) of a Go string holding the characters s
RECURSIVE ByteLen(_)
ByteLen(s) == IF s = << >> THEN 0 ELSE RuneLen(Head(s)) + ByteLen(Tail(s))

\* strings.ToUpper
StrToUpper(s) == [ i \in DOMAIN s |-> ToUpperChar(s[i]) ]

\* A variant of ReplaceDashes that leaves the dashes.
KeepDashes(s) == s

\* strings.ReplaceAll(s, "-", "_")
ReplaceDashes(s) == [ i \in DOMAIN s |-> IF s[i] = "-" THEN "_" ELSE s[i] ]

\* strings.HasSuffix
HasSuffix(s, suf) ==
    /\ Len(s) >= Len(suf)
    /\ SubSeq(s, Len(s) - Len(suf) + 1, Len(s)) = suf

\* fmt.Sprintf("%d", n) for n >= 0
RECURSIVE IntToStr(_)
IntToStr(n) ==
    IF n < 10 THEN << DigitChars[n + 1] >>
    ELSE IntToStr(n \div 10) \o << DigitChars[(n % 10) + 1] >>

-----------------------------------------------------------------------------
(* Naming engine (internal/naming.go)                                      *)

\* ToSnakeCase: every uppercase rune becomes "_" + lowercase, except that no
\* underscore is written before the first rune.
RECURSIVE SnakeFrom(_, _)
SnakeFrom(s, i) ==
    IF i > Len(s) THEN << >>
    ELSE (IF IsUpper(s[i])
             THEN (IF i > 1 THEN << "_" >> ELSE << >>) \o << ToLowerChar(s[i]) >>
             ELSE << s[i] >>)
         \o SnakeFrom(s, i + 1)

ToSnakeCase(s) == IF s = << >> THEN << >> ELSE SnakeFrom(s, 1)

\* The first loop of ToPascalCase: scans until the first lowercase rune.
RECURSIVE CapsScan(_, _, _)
CapsScan(s, i, hasUnderscore) ==
    IF i > Len(s) THEN [ isAllCaps |-> TRUE, hasUnderscore |-> hasUnderscore ]
    ELSE IF s[i] = "_" THEN CapsScan(s, i + 1, TRUE)
    ELSE IF IsLower(s[i]) THEN [ isAllCaps |-> FALSE, hasUnderscore |-> hasUnderscore ]
    ELSE CapsScan(s, i + 1, hasUnderscore)

\* The second loop of ToPascalCase.
RECURSIVE PascalFrom(_, _, _, _)
PascalFrom(s, i, capitalizeNext, lowerRest) ==
    IF i > Len(s) THEN << >>
    ELSE IF s[i] = "_" THEN PascalFrom(s, i + 1, TRUE, lowerRest)
    ELSE IF capitalizeNext
         THEN << ToUpperChar(s[i]) >> \o PascalFrom(s, i + 1, FALSE, lowerRest)
    ELSE (IF lowerRest THEN << ToLowerChar(s[i]) >> ELSE << s[i] >>)
         \o PascalFrom(s, i + 1, FALSE, lowerRest)

ToPascalCase(s) ==
    IF s = << >> THEN << >>
    ELSE LET scan == CapsScan(s, 1, FALSE)
         IN  PascalFrom(s, 1, TRUE, scan.isAllCaps /\ ~scan.hasUnderscore)

ToEnumValueName(enumName, value) ==
    LET upperEnum  == StrToUpper(ToSnakeCase(enumName))
        upperValue == ReplaceDashes(StrToUpper(ToSnakeCase(value)))
    IN  upperEnum \o << "_" >> \o upperValue

isValidProtoFieldChar(c) == IsLower(c) \/ IsUpper(c) \/ IsDigit(c) \/ c = "_"

\* The loop of SanitizeFieldName; out is the builder, last is lastWritten
\* ("" while nothing has been written).  The loop variable i of the code is
\* the byte index of the character, ByteLen of the characters before it.
RECURSIVE SanitizeFrom(_, _, _, _)
SanitizeFrom(name, i, out, last) ==
    IF i > Len(name) THEN out
    ELSE LET valid == isValidProtoFieldChar(name[i])
             out2  == IF valid THEN Append(out, name[i])
                      ELSE IF last # "_" THEN Append(out, "_") ELSE out
             last2 == IF valid THEN name[i] ELSE "_"
         IN  IF /\ ByteLen(SubSeq(name, 1, i - 1)) = ByteLen(name) - 1
                /\ ~valid
                /\ last2 = "_"
                /\ Len(out2) > 0
                /\ out2[Len(out2)] = "_"
             THEN SubSeq(out2, 1, Len(out2) - 1)
             ELSE SanitizeFrom(name, i + 1, out2, last2)

\* SanitizeFieldName returns (string, error): err is "" when it succeeds.
SanitizeFieldName(name) ==
    IF name = << >>
    THEN [ val |-> << >>, err |-> "field name cannot be empty" ]
    ELSE IF ~(IsLower(name[1]) \/ IsUpper(name[1]))
    THEN [ val |-> << >>,
           err |-> IF name[1] = "_"
                   THEN "field name cannot start with underscore"
                   ELSE "field name must start with a letter" ]
    ELSE LET sanitized == SanitizeFrom(name, 1, << >>, "")
         IN  IF sanitized = << >>
             THEN [ val |-> << >>, err |-> "field name contains no valid characters" ]
             ELSE [ val |-> sanitized, err |-> "" ]

\* NameTracker: used is the map name -> count, a function whose domain is
\* the set of names seen so far.
NewNameTracker == << >>

TrackerSet(used, name, count) ==
    [ n \in (DOMAIN used) \cup { name } |-> IF n = name THEN count ELSE used[n] ]

\* A variant of UniqueName that counts repeats from 1: the second request
\* for a name returns name_1.
UniqueNameFromOne(used, name) ==
    IF name \notin DOMAIN used
    THEN [ used |-> TrackerSet(used, name, 1), name |-> name ]
    ELSE [ used |-> TrackerSet(used, name, used[name] + 1),
           name |-> name \o << "_" >> \o IntToStr(used[name]) ]

\* UniqueName returns the name and the updated map.
UniqueName(used, name) ==
    IF name \notin DOMAIN used
    THEN [ used |-> TrackerSet(used, name, 1), name |-> name ]
    ELSE [ used |-> TrackerSet(used, name, used[name] + 1),
           name |-> name \o << "_" >> \o IntToStr(used[name] + 1) ]

-----------------------------------------------------------------------------
(* Input: schema nodes                                                     *)
(*                                                                         *)
(* A schema node (libopenapi's SchemaProxy with its Schema) is a record:   *)
(*   name    declaration name (top level) or property name                 *)
(*   ref     the $ref split at "/" (<< >> when the node is no reference)   *)
(*   type    schema.Type, a sequence of type names                         *)
(*   format  schema.Format                                                 *)
(*   props   schema.Properties, in declaration order                       *)
(*   items   schema.Items.A: << >> or a one-element sequence               *)
(*   enum    schema.Enum, the literals                                     *)
(*   oneOf   schema.OneOf, the variant nodes                               *)
(*   allOf, anyOf   len(schema.AllOf), len(schema.AnyOf)                   *)
(*   hasNot  schema.Not != nil                                             *)
(*   disc    schema.Discriminator.PropertyName (<< >> when absent)         *)
(*   xnum    the text of the x-proto-number extension (<< >> when absent)  *)

BlankNode ==
    [ name |-> << >>, ref |-> << >>, type |-> << >>, format |-> "",
      props |-> << >>, items |-> << >>, enum |-> << >>, oneOf |-> << >>,
      allOf |-> 0, anyOf |-> 0, hasNot |-> FALSE, disc |-> << >>, xnum |-> << >> ]

\* "#/components/schemas/<name>" as strings.Split(ref, "/") sees it
RefTo(name) == << "#", "components", "schemas", name >>

\* proxy.IsReference()
IsReference(node) == node.ref # << >>

\* parts[len(parts)-1] of strings.Split(ref, "/")
LastSegment(ref) == ref[Len(ref)]

\* A reference into this document starts with "#"; any other first segment
\* names another file.
IsLocal(ref) == ref[1] = "#"

\* proxy.Schema(): the node itself, or for a reference the schema declared
\* under the referenced name; << >> (nil) when no such schema is declared
\* in this document.
Schema(d, node) ==
    IF ~IsReference(node) THEN << node >>
    ELSE IF ~IsLocal(node.ref) THEN << >>
    ELSE LET hits == { i \in DOMAIN d : d[i].name = LastSegment(node.ref) }
         IN  IF hits = { } THEN << >>
             ELSE << d[CHOOSE i \in hits : \A j \in hits : i <= j] >>

\* contains(slice, item)
contains(slice, item) == \E i \in DOMAIN slice : slice[i] = item

isEnumSchema(schema) == Len(schema.enum) > 0

-----------------------------------------------------------------------------
(* Errors: the message of the error, with the numbers it is formatted with, *)
(* the schema its text names as schema '<name>' and the properties it names *)
(* as property '<name>', from left to right.                                *)

Err(msg) == [ msg |-> msg, a |-> 0, b |-> 0, schema |-> << >>, props |-> << >> ]

ErrNum(msg, a, b) == [ Err(msg) EXCEPT !.a = a, !.b = b ]

NoErr == Err("")

\* fmt.Errorf of a message that has property '<propertyName>' in its text
ErrProperty(msg, propertyName) == [ Err(msg) EXCEPT !.props = << propertyName >> ]

\* SchemaError, UnsupportedSchemaError and fmt.Errorf("schema '%s': %w")
SchemaError(schemaName, e) == [ e EXCEPT !.schema = schemaName ]

\* A variant of PropertyError that names the schema only.
PropertyErrorUnnamed(schemaName, propertyName, e) == [ e EXCEPT !.schema = schemaName ]

\* PropertyError
PropertyError(schemaName, propertyName, e) ==
    [ e EXCEPT !.schema = schemaName, !.props = << propertyName >> \o @ ]

\* strings.Contains(err.Error(), fmt.Sprintf("property '%s'", propName))
NamesProperty(e, propName) == \E i \in DOMAIN e.props : e.props[i] = propName

\* The error a property leaves buildMessage with
MessagePropertyError(name, propName, e) ==
    IF NamesProperty(e, propName) THEN SchemaError(name, e)
    ELSE PropertyError(name, propName, e)

\* The error a property leaves buildNestedMessage with
NestedPropertyError(propName, e) ==
    IF NamesProperty(e, propName) THEN e
    ELSE [ e EXCEPT !.props = << propName >> \o @ ]

\* The state of a property loop with its error brought into the form the
\* loop returns it in
Wrapped(st, e) == [ st EXCEPT !.err = e ]

-----------------------------------------------------------------------------
(* Scalar types (internal/mapper.go)                                       *)

Chars ==
    [ int32  |-> << "i","n","t","3","2" >>,
      int64  |-> << "i","n","t","6","4" >>,
      float  |-> << "f","l","o","a","t" >>,
      double |-> << "d","o","u","b","l","e" >>,
      string |-> << "s","t","r","i","n","g" >>,
      bytes  |-> << "b","y","t","e","s" >>,
      bool   |-> << "b","o","o","l" >> ]

\* A variant of MapScalarType that takes int32 for the 64-bit format and
\* double for the float format.
MapScalarTypeDefaults(typ, format) ==
    IF typ = "integer" THEN [ type |-> Chars.int32, err |-> NoErr ]
    ELSE IF typ = "number" THEN [ type |-> Chars.double, err |-> NoErr ]
    ELSE IF typ = "string"
    THEN [ type |-> IF format \in { "byte", "binary" } THEN Chars.bytes ELSE Chars.string,
           err |-> NoErr ]
    ELSE IF typ = "boolean"
    THEN [ type |-> Chars.bool, err |-> NoErr ]
    ELSE [ type |-> << >>, err |-> Err("unsupported type") ]

MapScalarType(typ, format) ==
    IF typ = "integer"
    THEN [ type |-> IF format = "int64" THEN Chars.int64 ELSE Chars.int32, err |-> NoErr ]
    ELSE IF typ = "number"
    THEN [ type |-> IF format = "float" THEN Chars.float ELSE Chars.double, err |-> NoErr ]
    ELSE IF typ = "string"
    THEN [ type |-> IF format \in { "byte", "binary" } THEN Chars.bytes ELSE Chars.string,
           err |-> NoErr ]
    ELSE IF typ = "boolean"
    THEN [ type |-> Chars.bool, err |-> NoErr ]
    ELSE [ type |-> << >>, err |-> Err("unsupported type") ]

-----------------------------------------------------------------------------
(* Dependency graph and classification                                     *)
(*                                                                         *)
(* schemas: the registered names in registration order; edges: the         *)
(* recorded dependencies << from, to >> in recording order; marks: the     *)
(* "requires native struct" marking, a function from the marked names to   *)
(* their reason.  A reason is the fixed text plus the union it names.      *)

Reason(text, union) == [ text |-> text, name |-> union ]

NewDependencyGraph == [ schemas |-> << >>, edges |-> << >>, marks |-> << >> ]

AddSchema(g, name) == [ g EXCEPT !.schemas = Append(@, name) ]

AddDependency(g, from, to) == [ g EXCEPT !.edges = Append(@, << from, to >>) ]

SetMark(marks, name, reason) ==
    [ n \in (DOMAIN marks) \cup { name } |-> IF n = name THEN reason ELSE marks[n] ]

\* Marks the variants from the i-th on that are not marked yet.
RECURSIVE MarkVariants(_, _, _, _)
MarkVariants(marks, union, variants, i) ==
    IF i > Len(variants) THEN marks
    ELSE MarkVariants(
             IF variants[i] \in DOMAIN marks THEN marks
             ELSE SetMark(marks, variants[i], Reason("variant of union type", union)),
             union, variants, i + 1)

MarkUnion(g, name, reason, variants) ==
    [ g EXCEPT !.marks =
          MarkVariants(SetMark(g.marks, name, Reason(reason, << >>)), name, variants, 1) ]

\* The union a marked schema leads to.
RootOf(marks, name) ==
    IF marks[name].name = << >> THEN name ELSE marks[name].name

\* One full scan over the edges from the i-th on: an unmarked source of an
\* edge into a marked target is marked.
RECURSIVE ClosureScan(_, _, _)
ClosureScan(edges, marks, i) ==
    IF i > Len(edges) THEN marks
    ELSE LET from == edges[i][1]
             to   == edges[i][2]
         IN  ClosureScan(
                 edges,
                 IF to \in DOMAIN marks /\ from \notin DOMAIN marks
                 THEN SetMark(marks, from,
                              Reason("references union type", RootOf(marks, to)))
                 ELSE marks,
                 i + 1)

\* Scans until a full scan marks nothing new.
RECURSIVE ClosureFixpoint(_, _)
ClosureFixpoint(edges, marks) ==
    LET next == ClosureScan(edges, marks, 1)
    IN  IF DOMAIN next = DOMAIN marks THEN marks ELSE ClosureFixpoint(edges, next)

\* Returns goTypes, protoTypes and reasons.
ComputeTransitiveClosure(g) ==
    LET marks == ClosureFixpoint(g.edges, g.marks)
    IN  [ goTypes    |-> DOMAIN marks,
          protoTypes |-> Range(g.schemas) \ DOMAIN marks,
          reasons    |-> marks ]

\* extractVariantNames: the schema name of every $ref variant
RECURSIVE extractVariantNames(_)
extractVariantNames(oneOf) ==
    IF oneOf = << >> THEN << >>
    ELSE (IF IsReference(Head(oneOf)) THEN << LastSegment(Head(oneOf).ref) >> ELSE << >>)
         \o extractVariantNames(Tail(oneOf))

-----------------------------------------------------------------------------
(* Field-number overrides (x-proto-number)                                 *)

MaxFieldNumber == 536870911

ReservedStart == 19000

ReservedEnd == 19999

\* The digits of s as a number; s is a non-empty sequence of digits.
RECURSIVE DigitsValue(_)
DigitsValue(s) ==
    IF Len(s) = 0 THEN 0
    ELSE 10 * DigitsValue(SubSeq(s, 1, Len(s) - 1)) + (IndexIn(s[Len(s)], DigitChars) - 1)

\* Parses the text of an override as a decimal integer with an optional sign.
ParseFieldNumber(text) ==
    LET signed == Len(text) > 0 /\ text[1] \in { "-", "+" }
        digits == IF signed THEN Tail(text) ELSE text
    IN  IF Len(digits) = 0 \/ \E i \in DOMAIN digits : ~IsDigit(digits[i])
        THEN [ ok |-> FALSE, val |-> 0 ]
        ELSE [ ok |-> TRUE,
               val |-> IF signed /\ text[1] = "-" THEN 0 - DigitsValue(digits)
                       ELSE DigitsValue(digits) ]

\* A variant of validateFieldNumber whose reserved range excludes its ends.
validateOpenReserved(text) ==
    LET parsed == ParseFieldNumber(text)
    IN  IF ~parsed.ok THEN Err("x-proto-number must be a valid integer")
        ELSE IF parsed.val < 1 \/ parsed.val > MaxFieldNumber
        THEN ErrNum("x-proto-number must be between 1 and 536870911", parsed.val, 0)
        ELSE IF parsed.val > ReservedStart /\ parsed.val < ReservedEnd
        THEN ErrNum("is in reserved range 19000-19999", parsed.val, 0)
        ELSE NoErr

\* The verdict on one override: NoErr when it is accepted.
validateFieldNumber(text) ==
    LET parsed == ParseFieldNumber(text)
    IN  IF ~parsed.ok THEN Err("x-proto-number must be a valid integer")
        ELSE IF parsed.val < 1 \/ parsed.val > MaxFieldNumber
        THEN ErrNum("x-proto-number must be between 1 and 536870911", parsed.val, 0)
        ELSE IF parsed.val >= ReservedStart /\ parsed.val <= ReservedEnd
        THEN ErrNum("is in reserved range 19000-19999", parsed.val, 0)
        ELSE NoErr

\* The overrides from the i-th property on, given the numbers seen so far.
RECURSIVE ValidateOverridesFrom(_, _, _)
ValidateOverridesFrom(props, i, seen) ==
    IF i > Len(props) THEN NoErr
    ELSE IF props[i].xnum = << >> THEN ValidateOverridesFrom(props, i + 1, seen)
    ELSE LET verdict == validateFieldNumber(props[i].xnum)
             n       == ParseFieldNumber(props[i].xnum).val
         IN  IF verdict # NoErr THEN verdict
             ELSE IF n \in seen THEN ErrNum("duplicate x-proto-number", n, 0)
             ELSE ValidateOverridesFrom(props, i + 1, seen \cup { n })

\* A variant of validateFieldNumbers without the all-or-nothing rule.
validateValuesOnly(props) == ValidateOverridesFrom(props, 1, { })

\* The per-message rules: every override valid and unique, and overrides on
\* all properties or on none.
validateFieldNumbers(props) ==
    LET verdict == ValidateOverridesFrom(props, 1, { })
        found   == Cardinality({ i \in DOMAIN props : props[i].xnum # << >> })
    IN  IF verdict # NoErr THEN verdict
        ELSE IF found > 0 /\ found < Len(props)
        THEN ErrNum("x-proto-number must be specified on all fields or none",
                    found, Len(props))
        ELSE NoErr

\* The number of a field: its override, or else the running counter.
FieldNumberOf(prop, fieldNumber) ==
    IF prop.xnum # << >> THEN ParseFieldNumber(prop.xnum).val ELSE fieldNumber

-----------------------------------------------------------------------------
(* IR builder (internal/builder.go) and type mapper (internal/mapper.go)   *)
(*                                                                         *)
(* Context: Tracker (the top-level NameTracker map), Messages, Enums and   *)
(* Definitions; a definition points to its message or enum by kind and     *)
(* position in Messages / Enums.                                           *)

NewContext ==
    [ Tracker |-> NewNameTracker, Messages |-> << >>, Enums |-> << >>,
      Definitions |-> << >> ]

NoEnum == [ Name |-> << >>, Values |-> << >> ]

NoMessage == [ Name |-> << >>, Fields |-> << >>, Nested |-> << >>, OriginalSchema |-> << >> ]

UnspecifiedSuffix == << "_","U","N","S","P","E","C","I","F","I","E","D" >>

\* fmt.Sprintf("%s_UNSPECIFIED", strings.ToUpper(ToSnakeCase(enumName)))
UnspecifiedName(enumName) == StrToUpper(ToSnakeCase(enumName)) \o UnspecifiedSuffix

\* A variant of EnumValueNumber that numbers the literals from 0.
EnumValueIndex(i) == i

\* Number: i + 1, for the 0-based index i of the literal
EnumValueNumber(i) == i + 1

\* The values of an enum: UNSPECIFIED, then one value per literal.
EnumValues(enumName, literals) ==
    << [ Name |-> UnspecifiedName(enumName), Number |-> 0 ] >>
    \o [ k \in 1 .. Len(literals) |->
           [ Name   |-> ToEnumValueName(enumName, literals[k]),
             Number |-> EnumValueNumber(k - 1) ] ]

\* A variant of NamedEnum that lists the enum before the definitions
\* listed so far.
NamedEnumFirst(schema, ctx, u) ==
    [ ctx  |-> [ ctx EXCEPT !.Tracker = u.used,
                            !.Enums = Append(@, [ Name   |-> u.name,
                                                  Values |-> EnumValues(u.name, schema.enum) ]),
                            !.Definitions =
                                << [ kind |-> "enum", idx |-> Len(ctx.Enums) + 1 ] >> \o @ ],
      enum |-> [ Name |-> u.name, Values |-> EnumValues(u.name, schema.enum) ],
      err  |-> NoErr ]

\* The enum buildEnum appends once the tracker has handed out its name.
NamedEnum(schema, ctx, u) ==
    [ ctx  |-> [ ctx EXCEPT !.Tracker = u.used,
                            !.Enums = Append(@, [ Name   |-> u.name,
                                                  Values |-> EnumValues(u.name, schema.enum) ]),
                            !.Definitions =
                                Append(@, [ kind |-> "enum", idx |-> Len(ctx.Enums) + 1 ]) ],
      enum |-> [ Name |-> u.name, Values |-> EnumValues(u.name, schema.enum) ],
      err  |-> NoErr ]

\* buildEnum returns the enum and the updated context.
buildEnum(name, resolved, ctx) ==
    IF resolved = << >>
    THEN [ ctx |-> ctx, enum |-> NoEnum, err |-> SchemaError(name, Err("schema is nil")) ]
    ELSE NamedEnum(resolved[1], ctx, UniqueName(ctx.Tracker, ToPascalCase(name)))

\* What ProtoType and ResolveArrayItemType return, with the context and the
\* enclosing message as they have changed them.
Typed(ctx, parent, type, repeated, err) ==
    [ ctx |-> ctx, parent |-> parent, type |-> type, repeated |-> repeated, err |-> err ]

\* A variant of ArrayTyped that returns the item type without the repeated
\* flag.
ArrayTypedSingle(it) ==
    IF it.err # NoErr THEN Typed(it.ctx, it.parent, << >>, FALSE, it.err)
    ELSE Typed(it.ctx, it.parent, it.type, FALSE, NoErr)

\* return itemType, true, nil (or the error of ResolveArrayItemType)
ArrayTyped(it) ==
    IF it.err # NoErr THEN Typed(it.ctx, it.parent, << >>, FALSE, it.err)
    ELSE Typed(it.ctx, it.parent, it.type, TRUE, NoErr)

\* return nestedMsg.Name, false, nil (or the error of buildNestedMessage)
NestedTyped(bn) ==
    IF bn.err # NoErr THEN Typed(bn.ctx, bn.parent, << >>, FALSE, bn.err)
    ELSE Typed(bn.ctx, bn.parent, bn.msg.Name, FALSE, NoErr)

\* return enumName, false, nil (or the error of buildEnum)
EnumTyped(be, enumName, parentMsg) ==
    IF be.err # NoErr THEN Typed(be.ctx, parentMsg, << >>, FALSE, be.err)
    ELSE Typed(be.ctx, parentMsg, enumName, FALSE, NoErr)

\* return scalarType, false, err
ScalarTyped(m, ctx, parentMsg) == Typed(ctx, parentMsg, m.type, FALSE, m.err)

IsPlural(propertyName) ==
    HasSuffix(propertyName, << "e", "s" >>) \/ HasSuffix(propertyName, << "s" >>)

\* A variant of NextFieldNumber that leaves the counter where it is.
SameFieldNumber(fieldNumber) == fieldNumber

\* A variant of NextFieldNumber that counts in steps of two.
SkipFieldNumber(fieldNumber) == fieldNumber + 2

\* fieldNumber++
NextFieldNumber(fieldNumber) == fieldNumber + 1

\* A variant of AppendField that puts the field in front.
PrependField(msg, field) == [ msg EXCEPT !.Fields = << field >> \o @ ]

\* msg.Fields = append(msg.Fields, field)
AppendField(msg, field) == [ msg EXCEPT !.Fields = Append(@, field) ]

\* A variant of NewField that takes the JSON name from the field name.
NewFieldJSONFromName(protoFieldName, protoType, number, repeated, propName) ==
    [ Name |-> protoFieldName, Type |-> protoType, Number |-> number,
      Repeated |-> repeated, JSONName |-> protoFieldName ]

\* The ProtoField literal of buildMessage / buildNestedMessage.
NewField(protoFieldName, protoType, number, repeated, propName) ==
    [ Name |-> protoFieldName, Type |-> protoType, Number |-> number,
      Repeated |-> repeated, JSONName |-> propName ]

\* The end of one iteration of the property loop: the error of ProtoType,
\* or the field appended and the counter advanced. st is the state of the
\* loop: ctx, msg, fieldTracker, fieldNumber, err (and graph in buildMessage).
TypedProperty(prop, st, fu, pt) ==
    IF pt.err # NoErr
    THEN [ st EXCEPT !.ctx = pt.ctx, !.msg = pt.parent, !.fieldTracker = fu.used,
                     !.err = pt.err ]
    ELSE [ st EXCEPT !.ctx = pt.ctx,
                     !.msg = AppendField(pt.parent,
                                 NewField(fu.name, pt.type,
                                          FieldNumberOf(prop, st.fieldNumber),
                                          pt.repeated, prop.name)),
                     !.fieldTracker = fu.used,
                     !.fieldNumber = NextFieldNumber(st.fieldNumber) ]

RECURSIVE ProtoType(_, _, _, _, _, _)
RECURSIVE ResolveArrayItemType(_, _, _, _, _)
RECURSIVE buildNestedMessage(_, _, _, _, _)
RECURSIVE NestedProperties(_, _, _, _)

\* The state one iteration of the property loop of buildNestedMessage ends in
NestedWrapped(propName, st) ==
    IF st.err = NoErr THEN st ELSE Wrapped(st, NestedPropertyError(propName, st.err))

\* The state one iteration of the property loop of buildMessage ends in
MessageWrapped(name, propName, st) ==
    IF st.err = NoErr THEN st ELSE Wrapped(st, MessagePropertyError(name, propName, st.err))

\* One iteration of the property loop from SanitizeFieldName on.
NamedProperty(d, prop, propSchema, st, san) ==
    IF san.err # "" THEN [ st EXCEPT !.err = Err(san.err) ]
    ELSE TypedProperty(prop, st, UniqueName(st.fieldTracker, san.val),
                       ProtoType(d, propSchema, prop.name, prop, st.ctx, st.msg))

\* One iteration of the property loop of buildNestedMessage.
NestedProperty(d, prop, st) ==
    IF Schema(d, prop) = << >>
    THEN [ st EXCEPT !.err = NestedPropertyError(prop.name, Err("has nil schema")) ]
    ELSE NestedWrapped(prop.name,
             NamedProperty(d, prop, Schema(d, prop)[1], st, SanitizeFieldName(prop.name)))

\* The property loop of buildNestedMessage from the i-th property on; st is
\* [ ctx, msg, fieldTracker, fieldNumber, err ].
NestedProperties(d, props, i, st) ==
    IF i > Len(props) \/ st.err # NoErr THEN st
    ELSE NestedProperties(d, props, i + 1, NestedProperty(d, props[i], st))

\* The end of buildNestedMessage: the nested message joins the parent's
\* Nested list.
FinishNested(st, parentMsg) ==
    IF st.err # NoErr
    THEN [ ctx |-> st.ctx, parent |-> parentMsg, msg |-> NoMessage, err |-> st.err ]
    ELSE [ ctx    |-> st.ctx,
           parent |-> [ parentMsg EXCEPT !.Nested = Append(@, st.msg) ],
           msg    |-> st.msg,
           err    |-> NoErr ]

\* buildNestedMessage once the tracker has handed out the message name.
NamedNested(d, propertyName, schema, ctx, parentMsg, u, verr) ==
    IF verr # NoErr
    THEN [ ctx |-> [ ctx EXCEPT !.Tracker = u.used ], parent |-> parentMsg,
           msg |-> NoMessage, err |-> verr ]
    ELSE FinishNested(
             NestedProperties(d, schema.props, 1,
                 [ ctx          |-> [ ctx EXCEPT !.Tracker = u.used ],
                   msg          |-> [ Name |-> u.name, Fields |-> << >>, Nested |-> << >>,
                                      OriginalSchema |-> propertyName ],
                   fieldTracker |-> NewNameTracker,
                   fieldNumber  |-> 1,
                   err          |-> NoErr ]),
             parentMsg)

\* buildNestedMessage returns the nested message, the context and the parent
\* message with the nested message appended to its Nested list.
buildNestedMessage(d, propertyName, resolved, ctx, parentMsg) ==
    IF resolved = << >>
    THEN [ ctx |-> ctx, parent |-> parentMsg, msg |-> NoMessage,
           err |-> Err("nested object schema is nil") ]
    ELSE IF IsPlural(propertyName)
    THEN [ ctx |-> ctx, parent |-> parentMsg, msg |-> NoMessage,
           err |-> ErrProperty("cannot derive message name from property", propertyName) ]
    ELSE NamedNested(d, propertyName, resolved[1], ctx, parentMsg,
                     UniqueName(ctx.Tracker, ToPascalCase(propertyName)),
                     validateFieldNumbers(resolved[1].props))

\* ResolveArrayItemType once the items schema is resolved.
ResolvedItemType(d, itemsProxy, itemsSchema, propertyName, ctx, parentMsg) ==
    IF Len(itemsSchema.type) > 0 /\ contains(itemsSchema.type, "array")
    THEN Typed(ctx, parentMsg, << >>, FALSE, Err("nested arrays not supported"))
    ELSE IF IsReference(itemsProxy)
    THEN Typed(ctx, parentMsg, LastSegment(itemsProxy.ref), FALSE, NoErr)
    ELSE IF isEnumSchema(itemsSchema)
    THEN IF IsPlural(propertyName)
         THEN Typed(ctx, parentMsg, << >>, FALSE,
                    ErrProperty("cannot derive enum name from plural array property",
                                propertyName))
         ELSE EnumTyped(buildEnum(ToPascalCase(propertyName), << itemsSchema >>, ctx),
                        ToPascalCase(propertyName), parentMsg)
    ELSE IF Len(itemsSchema.type) > 0 /\ contains(itemsSchema.type, "object")
    THEN IF IsPlural(propertyName)
         THEN Typed(ctx, parentMsg, << >>, FALSE,
                    ErrProperty("cannot derive message name from plural array property",
                                propertyName))
         ELSE NestedTyped(buildNestedMessage(d, propertyName, << itemsSchema >>,
                                             ctx, parentMsg))
    ELSE IF Len(itemsSchema.type) = 0
    THEN Typed(ctx, parentMsg, << >>, FALSE, Err("array items must have a type"))
    ELSE ScalarTyped(MapScalarType(itemsSchema.type[1], itemsSchema.format),
                     ctx, parentMsg)

ResolveArrayItemType(d, schema, propertyName, ctx, parentMsg) ==
    IF schema.items = << >>
    THEN Typed(ctx, parentMsg, << >>, FALSE, Err("array must have items defined"))
    ELSE IF Schema(d, schema.items[1]) = << >>
    THEN Typed(ctx, parentMsg, << >>, FALSE, Err("array items schema is nil"))
    ELSE ResolvedItemType(d, schema.items[1], Schema(d, schema.items[1])[1],
                          propertyName, ctx, parentMsg)

ProtoType(d, schema, propertyName, propProxy, ctx, parentMsg) ==
    IF IsReference(propProxy)
    THEN IF Schema(d, propProxy) = << >>
         THEN Typed(ctx, parentMsg, << >>, FALSE,
                    ErrProperty("has unresolved reference", propertyName))
         ELSE IF LastSegment(propProxy.ref) = << >>
         THEN Typed(ctx, parentMsg, << >>, FALSE,
                    ErrProperty("reference has empty name segment", propertyName))
         ELSE Typed(ctx, parentMsg, LastSegment(propProxy.ref), FALSE, NoErr)
    ELSE IF Len(schema.type) > 0 /\ contains(schema.type, "array")
    THEN ArrayTyped(ResolveArrayItemType(d, schema, propertyName, ctx, parentMsg))
    ELSE IF Len(schema.type) > 0 /\ contains(schema.type, "object")
    THEN NestedTyped(buildNestedMessage(d, propertyName, << schema >>, ctx, parentMsg))
    ELSE IF isEnumSchema(schema)
    THEN EnumTyped(buildEnum(ToPascalCase(propertyName), << schema >>, ctx),
                   ToPascalCase(propertyName), parentMsg)
    ELSE IF Len(schema.type) = 0
    THEN Typed(ctx, parentMsg, << >>, FALSE, Err("property must have type or $ref"))
    ELSE IF Len(schema.type) > 1
    THEN Typed(ctx, parentMsg, << >>, FALSE, Err("multi-type properties not supported"))
    ELSE ScalarTyped(MapScalarType(schema.type[1], schema.format), ctx, parentMsg)

\* Track dependency if property references another schema
TrackPropertyRef(graph, name, propProxy) ==
    IF IsReference(propProxy) /\ LastSegment(propProxy.ref) # << >>
    THEN AddDependency(graph, name, LastSegment(propProxy.ref))
    ELSE graph

\* A variant of TrackArrayItemRef that records no dependency.
IgnoreArrayItemRef(graph, name, propSchema) == graph

\* Track dependencies in array items
TrackArrayItemRef(graph, name, propSchema) ==
    IF /\ Len(propSchema.type) > 0
       /\ contains(propSchema.type, "array")
       /\ propSchema.items # << >>
       /\ IsReference(propSchema.items[1])
       /\ LastSegment(propSchema.items[1].ref) # << >>
    THEN AddDependency(graph, name, LastSegment(propSchema.items[1].ref))
    ELSE graph

\* One iteration of the property loop of buildMessage.
MessageProperty(d, name, prop, st) ==
    IF Schema(d, prop) = << >>
    THEN [ st EXCEPT !.err = PropertyError(name, prop.name, Err("has nil schema")) ]
    ELSE MessageWrapped(name, prop.name,
             NamedProperty(d, prop, Schema(d, prop)[1],
                 [ st EXCEPT !.graph = TrackArrayItemRef(TrackPropertyRef(@, name, prop),
                                                         name, Schema(d, prop)[1]) ],
                 SanitizeFieldName(prop.name)))

\* The property loop of buildMessage from the i-th property on; st is
\* [ ctx, graph, msg, fieldTracker, fieldNumber, err ].
RECURSIVE MessageProperties(_, _, _, _, _)
MessageProperties(d, name, props, i, st) ==
    IF i > Len(props) \/ st.err # NoErr THEN st
    ELSE MessageProperties(d, name, props, i + 1, MessageProperty(d, name, props[i], st))

\* The end of buildMessage: the message joins Messages and Definitions.
FinishMessage(st) ==
    IF st.err # NoErr THEN [ ctx |-> st.ctx, graph |-> st.graph, err |-> st.err ]
    ELSE [ ctx   |-> [ st.ctx EXCEPT
                         !.Messages = Append(@, st.msg),
                         !.Definitions =
                             Append(@, [ kind |-> "message",
                                         idx  |-> Len(st.ctx.Messages) + 1 ]) ],
           graph |-> st.graph,
           err   |-> NoErr ]

\* buildMessage once the tracker has handed out the message name.
NamedMessage(d, name, schema, ctx, graph, u, verr) ==
    IF verr # NoErr
    THEN [ ctx |-> [ ctx EXCEPT !.Tracker = u.used ], graph |-> graph, err |-> verr ]
    ELSE FinishMessage(
             MessageProperties(d, name, schema.props, 1,
                 [ ctx          |-> [ ctx EXCEPT !.Tracker = u.used ],
                   graph        |-> graph,
                   msg          |-> [ Name |-> u.name, Fields |-> << >>, Nested |-> << >>,
                                      OriginalSchema |-> name ],
                   fieldTracker |-> NewNameTracker,
                   fieldNumber  |-> 1,
                   err          |-> NoErr ]))

\* buildMessage returns the updated context and graph; the message is
\* appended to Messages and Definitions when no property fails.
buildMessage(d, name, resolved, ctx, graph) ==
    IF resolved = << >>
    THEN [ ctx |-> ctx, graph |-> graph, err |-> SchemaError(name, Err("schema is nil")) ]
    ELSE IF Len(resolved[1].type) = 0 \/ ~contains(resolved[1].type, "object")
    THEN [ ctx |-> ctx, graph |-> graph,
           err |-> SchemaError(name, Err("only objects and enums supported at top level")) ]
    ELSE NamedMessage(d, name, resolved[1], ctx, graph,
                      UniqueName(ctx.Tracker, ToPascalCase(name)),
                      validateFieldNumbers(resolved[1].props))

\* A variant of validateTopLevelSchema that accepts a oneOf without a
\* discriminator.
validateWithoutDiscriminator(schema, schemaName) ==
    IF schema.allOf > 0
    THEN SchemaError(schemaName, Err("uses 'allOf' which is not supported"))
    ELSE IF schema.anyOf > 0
    THEN SchemaError(schemaName, Err("uses 'anyOf' which is not supported"))
    ELSE IF Len(schema.oneOf) > 0
    THEN IF Len(schema.oneOf) < 2
         THEN SchemaError(schemaName, Err("oneOf must have at least 2 variants"))
         ELSE IF \E i \in DOMAIN schema.oneOf : ~IsReference(schema.oneOf[i])
         THEN SchemaError(schemaName,
                  Err("oneOf variant must use $ref, inline schemas not supported"))
         ELSE NoErr
    ELSE IF schema.hasNot
    THEN SchemaError(schemaName, Err("uses 'not' which is not supported"))
    ELSE NoErr

\* A variant of validateTopLevelSchema that accepts a schema with not.
validateWithoutNot(schema, schemaName) ==
    IF schema.allOf > 0
    THEN SchemaError(schemaName, Err("uses 'allOf' which is not supported"))
    ELSE IF schema.anyOf > 0
    THEN SchemaError(schemaName, Err("uses 'anyOf' which is not supported"))
    ELSE IF Len(schema.oneOf) > 0
    THEN IF Len(schema.oneOf) < 2
         THEN SchemaError(schemaName, Err("oneOf must have at least 2 variants"))
         ELSE IF schema.disc = << >>
         THEN SchemaError(schemaName, Err("oneOf requires discriminator"))
         ELSE IF \E i \in DOMAIN schema.oneOf : ~IsReference(schema.oneOf[i])
         THEN SchemaError(schemaName,
                  Err("oneOf variant must use $ref, inline schemas not supported"))
         ELSE NoErr
    ELSE NoErr

\* validateTopLevelSchema: NoErr when the schema is accepted.
validateTopLevelSchema(schema, schemaName) ==
    IF schema.allOf > 0
    THEN SchemaError(schemaName, Err("uses 'allOf' which is not supported"))
    ELSE IF schema.anyOf > 0
    THEN SchemaError(schemaName, Err("uses 'anyOf' which is not supported"))
    ELSE IF Len(schema.oneOf) > 0
    THEN IF Len(schema.oneOf) < 2
         THEN SchemaError(schemaName, Err("oneOf must have at least 2 variants"))
         ELSE IF schema.disc = << >>
         THEN SchemaError(schemaName, Err("oneOf requires discriminator"))
         ELSE IF \E i \in DOMAIN schema.oneOf : ~IsReference(schema.oneOf[i])
         THEN SchemaError(schemaName,
                  ErrNum("oneOf variant must use $ref, inline schemas not supported",
                         (CHOOSE i \in DOMAIN schema.oneOf :
                             /\ ~IsReference(schema.oneOf[i])
                             /\ \A j \in 1 .. i - 1 : IsReference(schema.oneOf[j])) - 1,
                         0))
         ELSE NoErr
    ELSE IF schema.hasNot
    THEN SchemaError(schemaName, Err("uses 'not' which is not supported"))
    ELSE NoErr

\* The first pass of BuildMessages from the i-th entry on: register every
\* schema, validate it and mark the unions.
RECURSIVE FirstPassFrom(_, _, _)
FirstPassFrom(d, i, graph) ==
    IF i > Len(d) THEN [ graph |-> graph, err |-> NoErr ]
    ELSE LET graph1 == AddSchema(graph, d[i].name)
             verr   == validateTopLevelSchema(d[i], d[i].name)
         IN  IF verr # NoErr THEN [ graph |-> graph1, err |-> verr ]
             ELSE FirstPassFrom(d, i + 1,
                      IF Len(d[i].oneOf) > 0
                      THEN MarkUnion(graph1, d[i].name, "contains oneOf",
                                     extractVariantNames(d[i].oneOf))
                      ELSE graph1)

\* The second pass after buildEnum
EnumEntry(be, graph) == [ ctx |-> be.ctx, graph |-> graph, err |-> be.err ]

\* One iteration of the second pass of BuildMessages, for the entry `entry`.
SecondPassEntry(d, entry, ctx, graph) ==
    IF Len(entry.oneOf) > 0 THEN [ ctx |-> ctx, graph |-> graph, err |-> NoErr ]
    ELSE IF isEnumSchema(entry)
    THEN EnumEntry(buildEnum(entry.name, << entry >>, ctx), graph)
    ELSE buildMessage(d, entry.name, << entry >>, ctx, graph)

\* A variant of buildTypeMap that drops the reasons of the golang types.
buildTypeMapNoReason(goTypes, protoTypes, reasons) ==
    [ n \in goTypes \cup protoTypes |->
        [ Location |-> IF n \in protoTypes THEN "proto" ELSE "golang",
          Reason   |-> Reason("", << >>) ] ]

\* buildTypeMap: the location and reason of every classified name
buildTypeMap(goTypes, protoTypes, reasons) ==
    [ n \in goTypes \cup protoTypes |->
        IF n \in protoTypes
        THEN [ Location |-> "proto", Reason |-> Reason("", << >>) ]
        ELSE [ Location |-> "golang", Reason |-> reasons[n] ] ]

\* filterProtoMessages: the messages whose original schema is a proto type
filterProtoMessages(messages, protoTypes) ==
    SelectSeq(messages, LAMBDA m : m.OriginalSchema \in protoTypes)

\* filterProtoDefinitions: every enum, and the messages whose original
\* schema is a proto type
filterProtoDefinitions(definitions, messages, protoTypes) ==
    SelectSeq(definitions,
              LAMBDA def : \/ def.kind = "enum"
                           \/ messages[def.idx].OriginalSchema \in protoTypes)

-----------------------------------------------------------------------------
(* Input documents                                                         *)

ObjectNode(name, props) ==
    [ BlankNode EXCEPT !.name = name, !.type = << "object" >>, !.props = props ]

ScalarNode(name, typ) == [ BlankNode EXCEPT !.name = name, !.type = << typ >> ]

RefNode(name, target) == [ BlankNode EXCEPT !.name = name, !.ref = RefTo(target) ]

ArrayNode(name, items) ==
    [ BlankNode EXCEPT !.name = name, !.type = << "array" >>, !.items = << items >> ]

EnumNode(name, typ, literals) ==
    [ BlankNode EXCEPT !.name = name, !.type = << typ >>, !.enum = literals ]

UnionNode(name, variants, disc) ==
    [ BlankNode EXCEPT !.name = name, !.disc = disc,
        !.oneOf = [ k \in DOMAIN variants |-> RefNode(<< >>, variants[k]) ] ]

WithNumber(node, text) == [ node EXCEPT !.xnum = text ]

StrToLower(s) == [ i \in DOMAIN s |-> ToLowerChar(s[i]) ]

\* The elements of a set of numbers in ascending order.
RECURSIVE Ascending(_)
Ascending(S) ==
    IF S = { } THEN << >>
    ELSE LET m == CHOOSE x \in S : \A y \in S : x <= y
         IN  << m >> \o Ascending(S \ { m })

(* Reference graphs: one schema per name of GraphNames, each either a      *)
(* union or an object with a scalar property and at most MaxRefs           *)
(* references.  A union lists the two schemas declared after it            *)
(* (cyclically), or the schema declared after it twice; a reference to a   *)
(* schema declared later is an array of $ref items, any other a $ref       *)
(* property.                                                               *)

MaxRefs == 1

GraphNames ==
    << << "P","e","t" >>, << "D","o","g" >>, << "C","a","t" >>, << "O","w","n","e","r" >> >>

sId == << "i","d" >>

sPetType == << "p","e","t","T","y","p","e" >>

GraphChoices ==
    { [ union |-> TRUE, twin |-> t, refs |-> { } ] : t \in BOOLEAN }
    \cup { [ union |-> FALSE, twin |-> FALSE, refs |-> T ] :
             T \in { T \in SUBSET (DOMAIN GraphNames) : Cardinality(T) <= MaxRefs } }

GraphRefProp(i, j) ==
    IF j > i
    THEN ArrayNode(StrToLower(GraphNames[j]), RefNode(<< >>, GraphNames[j]))
    ELSE RefNode(StrToLower(GraphNames[j]), GraphNames[j])

GraphEntry(i, choice) ==
    LET n == Len(GraphNames)
    IN  IF choice.union
        THEN UnionNode(GraphNames[i],
                       << GraphNames[(i % n) + 1],
                          GraphNames[IF choice.twin THEN (i % n) + 1
                                     ELSE ((i + 1) % n) + 1] >>,
                       sPetType)
        ELSE ObjectNode(GraphNames[i],
                        << ScalarNode(sId, "string") >>
                        \o [ k \in 1 .. Cardinality(choice.refs) |->
                               GraphRefProp(i, Ascending(choice.refs)[k]) ])

GraphDocs ==
    { [ i \in DOMAIN GraphNames |-> GraphEntry(i, c[i]) ] :
        c \in [ DOMAIN GraphNames -> GraphChoices ] }

(* Name collisions: up to MaxNameSchemas schemas with distinct names of     *)
(* NamePool in any order, each an object with one scalar property or an    *)
(* enum.                                                                   *)

MaxNameSchemas == 3

sUser == << "U","s","e","r" >>

sItem == << "I","t","e","m" >>

sOrder == << "O","r","d","e","r" >>

sName == << "n","a","m","e" >>

sActive == << "a","c","t","i","v","e" >>

sInProgress == << "i","n","-","p","r","o","g","r","e","s","s" >>

s404 == << "4","0","4" >>

NamePool == { sUser, StrToLower(sUser), StrToUpper(sUser), sItem, StrToLower(sItem) }

\* The sequences of at most n distinct elements of S
RECURSIVE DistinctSeqs(_, _)
DistinctSeqs(S, n) ==
    IF n = 0 THEN { << >> }
    ELSE LET shorter == DistinctSeqs(S, n - 1)
         IN  shorter
             \cup UNION { { Append(q, x) : x \in S \ Range(q) } :
                          q \in { q \in shorter : Len(q) = n - 1 } }

NameEntry(name, isEnum) ==
    IF isEnum THEN EnumNode(name, "string", << sActive, sInProgress >>)
    ELSE ObjectNode(name, << ScalarNode(sName, "string") >>)

NameDocs ==
    UNION { { [ i \in DOMAIN names |-> NameEntry(names[i], kinds[i]) ] :
                kinds \in [ DOMAIN names -> BOOLEAN ] } :
            names \in DistinctSeqs(NamePool, MaxNameSchemas) \ { << >> } }

(* Hoisted types: a first schema named Item or User, and the object Order  *)
(* with a scalar property and one property that is an inline enum, an      *)
(* inline object, or an array of either; in both declaration orders.       *)

sStatus == << "s","t","a","t","u","s" >>

sUserId == << "U","S","E","R","_","I","D" >>

HoistNames == { StrToLower(sItem), sStatus, sUserId, StrToLower(sUser) }

LiteralLists == { << sActive >>, << sActive, sInProgress, s404 >> }

InlineNodes(name) ==
    { EnumNode(name, typ, lits) : typ \in { "string", "integer" }, lits \in LiteralLists }
    \cup { ObjectNode(name, << ScalarNode(sName, "string"), ScalarNode(sId, "integer") >>) }

HoistProps ==
    UNION { InlineNodes(name) \cup { ArrayNode(name, [ item EXCEPT !.name = << >> ]) :
                                       item \in InlineNodes(name) } :
            name \in HoistNames }

HoistDocs ==
    UNION { { << first, ObjectNode(sOrder, << ScalarNode(sId, "string"), p >>) >>,
              << ObjectNode(sOrder, << ScalarNode(sId, "string"), p >>), first >> } :
            first \in { NameEntry(sItem, FALSE), NameEntry(sItem, TRUE),
                        NameEntry(sUser, FALSE) },
            p \in HoistProps }

(* Field names: the object Rec with up to MaxProps scalar properties with  *)
(* distinct names of FieldPool, in any order.                              *)

MaxProps == 3

sRec == << "R","e","c" >>

FieldPool ==
    { << "a","-","b" >>, << "a",".","b" >>, << "a","_","b" >>, << "a","_","b","_","2" >> }

FieldDocs ==
    { << ObjectNode(sRec, [ i \in DOMAIN names |-> ScalarNode(names[i], "string") ]) >> :
        names \in DistinctSeqs(FieldPool, MaxProps) \ { << >> } }

(* Field numbers: the object User with                                     *)
(*  - up to MaxProps scalar properties, each without an override or with   *)
(*    one of CommonNumbers;                                                *)
(*  - one or two scalar properties, one with an override of ProbeNumbers   *)
(*    and the other without one or with the override 1;                    *)
(*  - a scalar property id and an inline object profile with the scalar    *)
(*    properties name and age, each of the four without an override or     *)
(*    with one of NestedNumbers, in both declaration orders.               *)

PropNames ==
    << << "z","e","b","r","a" >>, << "a","p","p","l","e" >>,
       << "b","a","n","a","n","a" >>, << "c","h","e","r","r","y" >>,
       << "m","a","n","g","o" >> >>

sProfile == << "p","r","o","f","i","l","e" >>

sAge == << "a","g","e" >>

NoNumber == << >>

CommonNumbers == { << "1" >>, << "2" >>, << "3" >> }

NestedNumbers == { << "1" >>, << "2" >>, << "5" >> }

ProbeNumbers ==
    { << "a","b","c" >>, << "3",".","1","4" >>, << "0" >>, << "-","1" >>,
      << "5","3","6","8","7","0","9","1","2" >>,
      << "1","9","0","0","0" >>, << "1","9","5","0","0" >>, << "1","9","9","9","9" >>,
      << "1","8","9","9","9" >>, << "2","0","0","0","0" >>,
      << "5","3","6","8","7","0","9","1","1" >> }

NumberedDocs ==
    UNION { { << ObjectNode(sUser,
                    [ i \in 1 .. n |-> WithNumber(ScalarNode(PropNames[i], "string"), x[i]) ]) >> :
                x \in [ 1 .. n -> { NoNumber } \cup CommonNumbers ] } :
            n \in 1 .. MaxProps }

ProbeDocs ==
    UNION { { << ObjectNode(sUser, << WithNumber(ScalarNode(PropNames[1], "string"), x) >>) >>,
              << ObjectNode(sUser, << WithNumber(ScalarNode(PropNames[1], "string"), x),
                                      WithNumber(ScalarNode(PropNames[2], "string"), y) >>) >>,
              << ObjectNode(sUser, << WithNumber(ScalarNode(PropNames[1], "string"), y),
                                      WithNumber(ScalarNode(PropNames[2], "string"), x) >>) >> } :
            x \in ProbeNumbers, y \in { NoNumber, << "1" >> } }

NestedDocs ==
    UNION { LET idProp  == WithNumber(ScalarNode(sId, "string"), x[1])
                profile == WithNumber(
                               ObjectNode(sProfile,
                                   << WithNumber(ScalarNode(sName, "string"), x[3]),
                                      WithNumber(ScalarNode(sAge, "integer"), x[4]) >>),
                               x[2])
            IN  { << ObjectNode(sUser, << idProp, profile >>) >>,
                  << ObjectNode(sUser, << profile, idProp >>) >> } :
            x \in [ 1 .. 4 -> { NoNumber } \cup NestedNumbers ] }

(* Enum literals: one top-level enum named Status or Code, of type string  *)
(* or integer, with one or two distinct literals of EnumLiterals.          *)

sCode == << "C","o","d","e" >>

sIsActive == << "i","s","A","c","t","i","v","e" >>

EnumLiterals == { sActive, sInProgress, s404, sIsActive }

EnumDocs ==
    { << EnumNode(name, typ, lits) >> :
        name \in { sStatus, StrToUpper(<< sStatus[1] >>) \o Tail(sStatus), sCode },
        typ \in { "string", "integer" },
        lits \in DistinctSeqs(EnumLiterals, 2) \ { << >> } }

(* Scalars: the object Rec with the property value, and after it or not   *)
(* the property id, where value has a type of ScalarTypes and a format of  *)
(* ScalarFormats.                                                          *)

sValue == << "v","a","l","u","e" >>

ScalarTypes == { "integer", "number", "string", "boolean", "null" }

ScalarFormats ==
    { "", "int32", "int64", "float", "double", "byte", "binary", "date", "date-time",
      "uuid" }

FormattedNode(name, typ, format) == [ ScalarNode(name, typ) EXCEPT !.format = format ]

ScalarDocs ==
    UNION { { << ObjectNode(sRec, << FormattedNode(sValue, typ, format) >>) >>,
              << ObjectNode(sRec, << ScalarNode(sId, "string"),
                                     FormattedNode(sValue, typ, format) >>) >> } :
            typ \in ScalarTypes, format \in ScalarFormats }

(* References: one or two schemas named User or user, objects or enums,   *)
(* and the object Order whose property owner is a $ref to one of them, to  *)
(* the undeclared schema Missing, or to a schema of external.yaml; Order   *)
(* is declared last or first.                                              *)

sOwner == << "o","w","n","e","r" >>

sMissing == << "M","i","s","s","i","n","g" >>

\* "./external.yaml#/components/schemas/<name>" as strings.Split(ref, "/")
\* sees it
ExternalRefTo(name) == << ".", "external.yaml#", "components", "schemas", name >>

ExternalRefNode(name, target) ==
    [ BlankNode EXCEPT !.name = name, !.ref = ExternalRefTo(target) ]

RefTargets == DistinctSeqs({ sUser, StrToLower(sUser) }, 2) \ { << >> }

RefProps(names) ==
    { RefNode(sOwner, t) : t \in Range(names) \cup { sMissing } }
    \cup { ExternalRefNode(sOwner, names[1]) }

RefHolder(p) == ObjectNode(sOrder, << ScalarNode(sId, "string"), p >>)

RefDocs ==
    UNION { UNION { { targets \o << RefHolder(p) >>, << RefHolder(p) >> \o targets } :
                      p \in RefProps(names),
                      targets \in { [ i \in DOMAIN names |-> NameEntry(names[i], kinds[i]) ] :
                                      kinds \in [ DOMAIN names -> BOOLEAN ] } } :
            names \in RefTargets }

(* Arrays: a schema User, object or enum, and the object Rec whose second  *)
(* property, named tags, item or addresses, is an array: of a scalar, of a *)
(* $ref to User, of an inline enum, of an inline object, of an array, or   *)
(* without items.                                                          *)

sTags == << "t","a","g","s" >>

sAddresses == << "a","d","d","r","e","s","s","e","s" >>

ArrayItems ==
    { FormattedNode(<< >>, typ, format) :
        typ \in ScalarTypes, format \in { "", "int64", "float", "byte" } }
    \cup { RefNode(<< >>, sUser),
           ArrayNode(<< >>, ScalarNode(<< >>, "string")),
           EnumNode(<< >>, "string", << sActive >>),
           ObjectNode(<< >>, << ScalarNode(sName, "string") >>) }

ArrayProps(name) ==
    { ArrayNode(name, item) : item \in ArrayItems }
    \cup { [ BlankNode EXCEPT !.name = name, !.type = << "array" >> ] }

ArrayDocs ==
    { << NameEntry(sUser, isEnum),
         ObjectNode(sRec, << ScalarNode(sId, "string"), p >>) >> :
        isEnum \in BOOLEAN,
        p \in ArrayProps(sTags) \cup ArrayProps(StrToLower(sItem))
              \cup ArrayProps(sAddresses) }

(* Inline objects: the object User with the property name and a second    *)
(* property, named address, profile or ship-to, that is the inline      *)
(* object of street and city.                                              *)

sAddress == << "a","d","d","r","e","s","s" >>

sStreet == << "s","t","r","e","e","t" >>

sCity == << "c","i","t","y" >>

sShipTo == << "s","h","i","p","-","t","o" >>

InlineNames == { sAddress, sProfile, sShipTo }

InlineDocs ==
    { << ObjectNode(sUser,
            << ScalarNode(sName, "string"),
               ObjectNode(name, << ScalarNode(sStreet, "string"),
                                   ScalarNode(sCity, "string") >>) >>) >> :
        name \in InlineNames }

(* Unions: the objects Dog and Cat and the schema Pet with one or two      *)
(* oneOf variants, each a $ref to Dog or Cat or an inline object, with or  *)
(* without the discriminator petType; Pet is declared first, between the   *)
(* two, or last.                                                           *)

sPet == GraphNames[1]

sDog == GraphNames[2]

sCat == GraphNames[3]

sBark == << "b","a","r","k" >>

VariantNodes ==
    { RefNode(<< >>, sDog), RefNode(<< >>, sCat),
      ObjectNode(<< >>, << ScalarNode(sBark, "string") >>) }

VariantLists == { << v >> : v \in VariantNodes } \cup (VariantNodes \X VariantNodes)

OneOfNode(name, variants, disc) ==
    [ BlankNode EXCEPT !.name = name, !.oneOf = variants, !.disc = disc ]

\* The sequence with x inserted at position k
InsertAt(q, k, x) == SubSeq(q, 1, k - 1) \o << x >> \o SubSeq(q, k, Len(q))

UnionDocs ==
    { InsertAt(<< ObjectNode(sDog, << ScalarNode(sPetType, "string") >>),
                  ObjectNode(sCat, << ScalarNode(sPetType, "string") >>) >>,
               k, OneOfNode(sPet, variants, disc)) :
        k \in 1 .. 3, variants \in VariantLists, disc \in { << >>, sPetType } }

(* Composition: two or three schemas, objects or enums named User and     *)
(* Item and the object Order, of which the one at one position declares    *)
(* allOf, anyOf, not, or allOf and anyOf.                                  *)

Keywords ==
    { [ allOf |-> 1, anyOf |-> 0, hasNot |-> FALSE ],
      [ allOf |-> 0, anyOf |-> 2, hasNot |-> FALSE ],
      [ allOf |-> 0, anyOf |-> 0, hasNot |-> TRUE ],
      [ allOf |-> 2, anyOf |-> 1, hasNot |-> FALSE ] }

Composed(node, kw) ==
    [ node EXCEPT !.allOf = kw.allOf, !.anyOf = kw.anyOf, !.hasNot = kw.hasNot ]

CompositionBases ==
    { << NameEntry(sUser, e1), NameEntry(sItem, e2) >> : e1, e2 \in BOOLEAN }
    \cup { << NameEntry(sUser, e1), NameEntry(sItem, e2),
              ObjectNode(sOrder, << ScalarNode(sId, "string") >>) >> : e1, e2 \in BOOLEAN }

CompositionDocs ==
    UNION { { [ base EXCEPT ![k] = Composed(@, kw) ] : k \in DOMAIN base, kw \in Keywords } :
            base \in CompositionBases }

(* Variants: the union Pet of Dog and Cat with the discriminator petType,  *)
(* where Dog and Cat declare petType as an inline enum and a second        *)
(* property, and the object User that no schema refers to; Pet is declared *)
(* first or last, User before or after Dog and Cat.                        *)

sDogLiteral == StrToLower(sDog)

sCatLiteral == StrToLower(sCat)

VariantEntry(name, literal, typ) ==
    ObjectNode(name, << EnumNode(sPetType, typ, << literal >>),
                        ScalarNode(sBark, "string") >>)

VariantDocs ==
    UNION { { InsertAt(InsertAt(<< VariantEntry(sDog, sDogLiteral, typ),
                                   VariantEntry(sCat, sCatLiteral, typ) >>,
                                k, NameEntry(sUser, FALSE)),
                       j, UnionNode(sPet, << sDog, sCat >>, sPetType)) :
                k \in { 1, 3 }, j \in { 1, 4 } } :
            typ \in { "string", "integer" } }

(* Sanitizing: the object Rec with one string property whose name is any   *)
(* string of up to MaxNameLen characters of NameAlphabet.                   *)

MaxNameLen == 3

NameAlphabet == { "a", "Z", "1", "_", "-", ".", eAcute }

SanitizeDocs ==
    { << ObjectNode(sRec, << ScalarNode(name, "string") >>) >> :
        name \in UNION { [ 1 .. n -> NameAlphabet ] : n \in 0 .. MaxNameLen } }

(* Type lists: the object Rec with the one property value, declared with   *)
(* one of TypeLists or as an array whose items are declared with one.      *)

TypeLists ==
    { << >>, << "string" >>, << "string", "integer" >>, << "integer", "string" >>,
      << "string", "null" >>, << "object", "string" >> }

TypedNode(name, types) == [ BlankNode EXCEPT !.name = name, !.type = types ]

TypeDocs ==
    UNION { { << ObjectNode(sRec, << TypedNode(sValue, types) >>) >>,
              << ObjectNode(sRec, << ArrayNode(sValue, TypedNode(<< >>, types)) >>) >> } :
            types \in TypeLists }

(* Near literals: the enum Status, of type string, with two distinct       *)
(* literals of NearLiterals, which differ in a dash, in case, or name the   *)
(* zero value.                                                              *)

sInProgressUnderscore == << "i","n","_","p","r","o","g","r","e","s","s" >>

sUnspecified == << "u","n","s","p","e","c","i","f","i","e","d" >>

NearLiterals ==
    { sActive, StrToUpper(<< sActive[1] >>) \o Tail(sActive), sInProgress,
      sInProgressUnderscore, sUnspecified }

NearEnumDocs ==
    { << EnumNode(StrToUpper(<< sStatus[1] >>) \o Tail(sStatus), "string", lits) >> :
        lits \in { q \in NearLiterals \X NearLiterals : q[1] # q[2] } }

(* Nested references: the union Pet of Dog and Cat, and the object owner   *)
(* that holds one of RefHolders as a property, inside an inline object, or  *)
(* inside the inline object items of an array; owner is declared first or   *)
(* last.                                                                    *)

RefHolders ==
    { RefNode(StrToLower(sPet), sPet), RefNode(StrToLower(sDog), sDog),
      ArrayNode(StrToLower(sPet), RefNode(<< >>, sPet)), ScalarNode(sName, "string") }

HolderPlaces(holder) ==
    { holder,
      ObjectNode(sProfile, << holder >>),
      ArrayNode(sProfile, ObjectNode(<< >>, << holder >>)) }

NestedRefDocs ==
    UNION { { InsertAt(<< UnionNode(sPet, << sDog, sCat >>, sPetType),
                          ObjectNode(sDog, << ScalarNode(sPetType, "string") >>),
                          ObjectNode(sCat, << ScalarNode(sPetType, "string") >>) >>,
                       k, ObjectNode(sOwner, << ScalarNode(sId, "string"), p >>)) :
                p \in HolderPlaces(holder), k \in { 1, 4 } } :
            holder \in RefHolders }

Docs ==
    GraphDocs \cup NameDocs \cup HoistDocs \cup FieldDocs
    \cup NumberedDocs \cup ProbeDocs \cup NestedDocs \cup EnumDocs
    \cup ScalarDocs \cup RefDocs \cup ArrayDocs \cup InlineDocs \cup UnionDocs
    \cup CompositionDocs \cup VariantDocs \cup SanitizeDocs \cup TypeDocs \cup NearEnumDocs \cup NestedRefDocs

-----------------------------------------------------------------------------
(* Convert (convert.go) as a state machine                                 *)
(*                                                                         *)
(* doc      the schemas of the parsed document, in declaration order       *)
(* pc       the position of Convert: "validate" and "parse", then "first"  *)
(*          and "second", the passes of BuildMessages, then "classify",    *)
(*          "generate" and "done"                                          *)
(* idx      the entry the second pass is at                                *)
(* ctx      the Context                                                    *)
(* graph    the DependencyGraph                                            *)
(* classes  goTypes, protoTypes, reasons and the TypeMap                   *)
(* result   << >> (nil) or the one ConvertResult                           *)
(* err      the error Convert returns (NoErr for nil)                      *)
(* input    what Convert is called with: the kind of the openapi bytes and *)
(*          the PackageName and PackagePath options                        *)

(* first    << >>, or what an earlier call of Convert with the same        *)
(*          arguments has returned: its result and its error               *)

VARIABLES doc, pc, idx, ctx, graph, classes, result, err, input, first

vars == << doc, pc, idx, ctx, graph, classes, result, err, input, first >>

NoClasses == [ goTypes |-> { }, protoTypes |-> { }, reasons |-> << >>, typeMap |-> << >> ]

\* The options every conversion of the test suites is called with
ValidInput ==
    [ openapi     |-> "document",
      PackageName |-> "testpkg",
      PackagePath |-> "github.com/example/proto/v1" ]

\* Calls with a missing option
OptionInputs ==
    [ openapi     : { "document" },
      PackageName : { "", ValidInput.PackageName },
      PackagePath : { "", ValidInput.PackagePath } ] \ { ValidInput }

\* Calls whose bytes are empty, are no YAML or JSON, or are a Swagger 2.0
\* document
BytesInputs ==
    [ openapi     : { "empty", "malformed", "swagger" },
      PackageName : { "", ValidInput.PackageName },
      PackagePath : { "", ValidInput.PackagePath } ]

\* The calls of Convert: the bytes parse to doc when they are a document
Requests ==
    (Docs \X { ValidInput }) \cup (EnumDocs \X OptionInputs)
    \cup ({ << >> } \X (BytesInputs \cup { ValidInput }))

\* Every reference node of a document: properties, array items and oneOf
\* variants, at any depth
RECURSIVE RefsOf(_)
RefsOf(node) ==
    (IF IsReference(node) THEN { node.ref } ELSE { })
    \cup UNION { RefsOf(node.props[i]) : i \in DOMAIN node.props }
    \cup UNION { RefsOf(node.items[i]) : i \in DOMAIN node.items }
    \cup UNION { RefsOf(node.oneOf[i]) : i \in DOMAIN node.oneOf }

\* Some reference of the document names another file or a schema that the
\* document does not declare
HasUnresolved(d) ==
    \E i \in DOMAIN d : \E ref \in RefsOf(d[i]) :
        Schema(d, [ d[i] EXCEPT !.ref = ref ]) = << >>

\* The entry of Convert for one of the calls R
InitFor(R) ==
    /\ \E r \in R : doc = r[1] /\ input = r[2]
    /\ pc = "validate"
    /\ idx = 1
    /\ ctx = NewContext
    /\ graph = NewDependencyGraph
    /\ classes = NoClasses
    /\ result = << >>
    /\ err = NoErr
    /\ first = << >>

Init == InitFor(Requests)

\* Convert, validation of its arguments
ValidateInput ==
    /\ pc = "validate"
    /\ err' = IF input.openapi = "empty" THEN Err("openapi input cannot be empty")
              ELSE IF input.PackageName = "" THEN Err("package name cannot be empty")
              ELSE IF input.PackagePath = "" THEN Err("package path cannot be empty")
              ELSE NoErr
    /\ pc' = IF err' # NoErr THEN "done" ELSE "parse"
    /\ UNCHANGED << doc, idx, ctx, graph, classes, result, input, first >>

\* parser.ParseDocument: libopenapi.NewDocument fails on bytes that are no
\* YAML or JSON; BuildV3Model reports a document of another version and may
\* report a reference it cannot resolve, or leave that reference without a
\* schema.
ParseDocument ==
    /\ pc = "parse"
    /\ \/ /\ input.openapi = "malformed"
          /\ err' = Err("failed to parse OpenAPI document")
          /\ pc' = "done"
       \/ /\ input.openapi = "swagger"
          /\ err' = Err("failed to build OpenAPI model")
          /\ pc' = "done"
       \/ /\ input.openapi = "document"
          /\ HasUnresolved(doc)
          /\ err' = Err("failed to build OpenAPI model")
          /\ pc' = "done"
       \/ /\ input.openapi = "document"
          /\ err' = NoErr
          /\ pc' = "first"
    /\ UNCHANGED << doc, idx, ctx, graph, classes, result, input, first >>

\* BuildMessages, first pass
FirstPass ==
    /\ pc = "first"
    /\ LET r == FirstPassFrom(doc, 1, NewDependencyGraph)
       IN  /\ graph' = r.graph
           /\ err' = r.err
           /\ pc' = IF r.err # NoErr THEN "done"
                    ELSE IF Len(doc) = 0 THEN "classify" ELSE "second"
    /\ UNCHANGED << doc, idx, ctx, classes, result, input, first >>

\* BuildMessages, one iteration of the second pass
SecondPass ==
    /\ pc = "second"
    /\ idx <= Len(doc)
    /\ LET r == SecondPassEntry(doc, doc[idx], ctx, graph)
       IN  /\ ctx' = r.ctx
           /\ graph' = r.graph
           /\ err' = r.err
           /\ pc' = IF r.err # NoErr THEN "done"
                    ELSE IF idx = Len(doc) THEN "classify" ELSE "second"
    /\ idx' = idx + 1
    /\ UNCHANGED << doc, classes, result, input, first >>

\* graph.ComputeTransitiveClosure() and buildTypeMap
Classify ==
    /\ pc = "classify"
    /\ LET c == ComputeTransitiveClosure(graph)
       IN  classes' = [ goTypes    |-> c.goTypes,
                        protoTypes |-> c.protoTypes,
                        reasons    |-> c.reasons,
                        typeMap    |-> buildTypeMap(c.goTypes, c.protoTypes, c.reasons) ]
    /\ pc' = "generate"
    /\ UNCHANGED << doc, idx, ctx, graph, result, err, input, first >>

\* The ConvertResult of a conversion: what the proto output is generated
\* from, whether there is proto and Go output, and the TypeMap
ConvertResult(c, cl) ==
    [ hasProto    |-> cl.protoTypes # { } \/ cl.goTypes = { },
      Messages    |-> filterProtoMessages(c.Messages, cl.protoTypes),
      Enums       |-> c.Enums,
      Definitions |-> filterProtoDefinitions(c.Definitions, c.Messages, cl.protoTypes),
      hasGo       |-> cl.goTypes # { },
      TypeMap     |-> cl.typeMap ]

\* A variant of Generate that returns the proto output and the TypeMap with
\* the error of the Go generation.
GeneratePartial ==
    /\ pc = "generate"
    /\ \/ /\ result' = << ConvertResult(ctx, classes) >>
          /\ err' = NoErr
       \/ /\ classes.goTypes # { }
          /\ result' = << [ ConvertResult(ctx, classes) EXCEPT !.hasGo = FALSE ] >>
          /\ err' = Err("go generation failed")
    /\ pc' = "done"
    /\ UNCHANGED << doc, idx, ctx, graph, classes, input, first >>

\* The generation of the proto output and of the Go output, and the return
\* of Convert: the result, or the error of BuildGoStructs or GenerateGo,
\* which may fail when there are Go types.
Generate ==
    /\ pc = "generate"
    /\ \/ /\ result' = << ConvertResult(ctx, classes) >>
          /\ err' = NoErr
       \/ /\ classes.goTypes # { }
          /\ result' = << >>
          /\ err' = Err("go generation failed")
    /\ pc' = "done"
    /\ UNCHANGED << doc, idx, ctx, graph, classes, input, first >>

Next ==
    ValidateInput \/ ParseDocument \/ FirstPass \/ SecondPass \/ Classify
    \/ Generate

Spec == Init /\ [][Next]_vars

-----------------------------------------------------------------------------
(* Two calls of Convert with the same arguments, one after the other       *)

\* The calls that are repeated: documents with colliding names, with
\* references, with unions and with enums, and calls with a missing option
RepeatRequests ==
    ((NameDocs \cup RefDocs \cup UnionDocs \cup HoistDocs) \X { ValidInput })
    \cup (EnumDocs \X OptionInputs)
    \cup ({ << >> } \X (BytesInputs \cup { ValidInput }))

InitTwice == InitFor(RepeatRequests)

\* A variant of CallAgain in which the second call goes on with the Context
\* of the first.
CallAgainSameContext ==
    /\ pc = "done"
    /\ first = << >>
    /\ first' = << [ result |-> result, err |-> err ] >>
    /\ pc' = "validate"
    /\ idx' = 1
    /\ graph' = NewDependencyGraph
    /\ classes' = NoClasses
    /\ result' = << >>
    /\ err' = NoErr
    /\ UNCHANGED << doc, input, ctx >>

\* Convert has returned and is called again with the same bytes and
\* options: NewContext, NewDependencyGraph and the trackers are created anew
\* by the call.
CallAgain ==
    /\ pc = "done"
    /\ first = << >>
    /\ first' = << [ result |-> result, err |-> err ] >>
    /\ pc' = "validate"
    /\ idx' = 1
    /\ ctx' = NewContext
    /\ graph' = NewDependencyGraph
    /\ classes' = NoClasses
    /\ result' = << >>
    /\ err' = NoErr
    /\ UNCHANGED << doc, input >>

\* BuildV3Model, BuildGoStructs and GenerateGo are functions of their
\* arguments: in the second call they fail exactly when they failed in the
\* first.
SameOutcome ==
    (first # << >> /\ pc \in { "parse", "generate" }) =>
        /\ err' = Err("failed to build OpenAPI model")
              <=> first[1].err = Err("failed to build OpenAPI model")
        /\ err' = Err("go generation failed")
              <=> first[1].err = Err("go generation failed")

NextTwice == (Next /\ SameOutcome) \/ CallAgain

SpecTwice == InitTwice /\ [][NextTwice]_vars

-----------------------------------------------------------------------------
(* ComputeTransitiveClosure scan by scan                                   *)
(*                                                                         *)
(* The position "closure" is the head of the loop of the closure; while    *)
(* the loop runs, classes.reasons holds the marks made so far.             *)

ClosureRequests ==
    ((GraphDocs \cup RefDocs \cup UnionDocs) \X { ValidInput })
    \cup (EnumDocs \X OptionInputs)
    \cup ({ << >> } \X (BytesInputs \cup { ValidInput }))

InitClosure == InitFor(ClosureRequests)

\* graph.ComputeTransitiveClosure() is entered with the marks of MarkUnion
BeginClosure ==
    /\ pc = "classify"
    /\ classes' = [ NoClasses EXCEPT !.reasons = graph.marks ]
    /\ pc' = "closure"
    /\ UNCHANGED << doc, idx, ctx, graph, result, err, input, first >>

\* A variant of Scanned that goes on scanning as long as some edge leads to
\* a marked schema, whether or not its source is marked already.
ScannedRemarking(next) ==
    IF \A i \in DOMAIN graph.edges : graph.edges[i][2] \notin DOMAIN next
    THEN /\ classes' = [ goTypes    |-> DOMAIN next,
                         protoTypes |-> Range(graph.schemas) \ DOMAIN next,
                         reasons    |-> next,
                         typeMap    |-> buildTypeMap(DOMAIN next,
                                            Range(graph.schemas) \ DOMAIN next, next) ]
         /\ pc' = "generate"
    ELSE /\ classes' = [ classes EXCEPT !.reasons = next ]
         /\ pc' = "closure"

\* The end of one full scan that has left the marks next: a scan that has
\* marked nothing new ends the loop, and Convert builds the TypeMap.
Scanned(next) ==
    IF DOMAIN next = DOMAIN classes.reasons
    THEN /\ classes' = [ goTypes    |-> DOMAIN next,
                         protoTypes |-> Range(graph.schemas) \ DOMAIN next,
                         reasons    |-> next,
                         typeMap    |-> buildTypeMap(DOMAIN next,
                                            Range(graph.schemas) \ DOMAIN next, next) ]
         /\ pc' = "generate"
    ELSE /\ classes' = [ classes EXCEPT !.reasons = next ]
         /\ pc' = "closure"

\* One full scan over the edges
ScanEdges ==
    /\ pc = "closure"
    /\ Scanned(ClosureScan(graph.edges, classes.reasons, 1))
    /\ UNCHANGED << doc, idx, ctx, graph, result, err, input, first >>

NextClosure ==
    \/ ValidateInput
    \/ ParseDocument
    \/ FirstPass
    \/ SecondPass
    \/ BeginClosure
    \/ ScanEdges
    \/ Generate

\* Convert runs on one thread and nothing in it waits: once the closure is
\* called, the loop is entered and each scan that can be made is made.
SpecClosure ==
    InitClosure /\ [][NextClosure]_vars /\ WF_vars(BeginClosure) /\ WF_vars(ScanEdges)

-----------------------------------------------------------------------------
(* Properties                                                              *)

Declared == { doc[i].name : i \in DOMAIN doc }

EntryOf(name) == doc[CHOOSE i \in DOMAIN doc : doc[i].name = name]

DeclaresOneOf(name) == Len(EntryOf(name).oneOf) > 0

\* V is listed as a $ref variant by the oneOf schema U
IsVariantOf(V, U) ==
    /\ DeclaresOneOf(U)
    /\ \E k \in DOMAIN EntryOf(U).oneOf :
          /\ IsReference(EntryOf(U).oneOf[k])
          /\ LastSegment(EntryOf(U).oneOf[k].ref) = V

\* S has a property that is a $ref to T
HasPropertyRef(S, T) ==
    \E k \in DOMAIN EntryOf(S).props :
       /\ IsReference(EntryOf(S).props[k])
       /\ LastSegment(EntryOf(S).props[k].ref) = T

\* S has an array property whose items are a $ref to T
HasArrayItemRef(S, T) ==
    \E k \in DOMAIN EntryOf(S).props :
       LET p == EntryOf(S).props[k]
       IN  /\ contains(p.type, "array")
           /\ p.items # << >>
           /\ IsReference(p.items[1])
           /\ LastSegment(p.items[1].ref) = T

DependsOn(S, T) == HasPropertyRef(S, T) \/ HasArrayItemRef(S, T)

\* The schemas reachable from the set F in at least one and at most k edges
RECURSIVE ReachWithin(_, _)
ReachWithin(F, k) ==
    IF k = 0 THEN { }
    ELSE LET step == { T \in Declared : \E S \in F : DependsOn(S, T) }
         IN  step \cup ReachWithin(step, k - 1)

UnionSeeds ==
    { S \in Declared : DeclaresOneOf(S) \/ \E U \in Declared : IsVariantOf(S, U) }

\* The schemas the classification rule makes native-struct types
ExpectedGoTypes ==
    LET seeds == UnionSeeds
    IN  seeds \cup { S \in Declared \ seeds :
                       ReachWithin({ S }, Cardinality(Declared)) \cap seeds # { } }

Classified == pc \in { "generate", "done" } /\ err = NoErr

\* C1: after BuildMessages and ComputeTransitiveClosure a schema is a golang
\* type iff it declares a oneOf, is a variant of a oneOf schema, or has a
\* dependency path (property $ref or array-item $ref edges) to such a
\* schema; every other schema is a proto type, also in the TypeMap of the
\* result.
C1_ClosureCorrect ==
    Classified =>
        LET expected == ExpectedGoTypes
        IN  /\ classes.goTypes = expected
            /\ classes.protoTypes = Declared \ expected
            /\ DOMAIN classes.typeMap = Declared
            /\ \A S \in Declared :
                  classes.typeMap[S].Location =
                      IF S \in expected THEN "golang" ELSE "proto"
            /\ result # << >> => result[1].TypeMap = classes.typeMap

\* C1 witness: a finished conversion in which a schema on a reference cycle
\* is classified golang only through a path of two or more edges, none of
\* its own references being to a union or a variant.
C1_Witness ==
    /\ pc = "done"
    /\ result # << >>
    /\ \E S \in Declared :
          /\ S \in classes.goTypes
          /\ S \notin UnionSeeds
          /\ \A T \in UnionSeeds : ~DependsOn(S, T)
          /\ S \in ReachWithin({ S }, Cardinality(Declared))

TypeInfo(location, text, union) ==
    [ Location |-> location, Reason |-> Reason(text, union) ]

\* C2: in the TypeMap of the result a oneOf schema U has the reason
\* "contains oneOf"; a schema that is a variant of U alone (and no union
\* itself) has "variant of union type U"; a plain schema with a property
\* $ref to U that references no other classified schema has "references
\* union type U"; a schema with no connection to any union is located in
\* proto with an empty reason.
C2_Reasons ==
    (pc = "done" /\ result # << >>) =>
        LET map      == result[1].TypeMap
            expected == ExpectedGoTypes
            seeds    == UnionSeeds
        IN  \A U \in Declared :
               /\ DeclaresOneOf(U) => map[U] = TypeInfo("golang", "contains oneOf", << >>)
               /\ U \notin expected => map[U] = TypeInfo("proto", "", << >>)
               /\ \A V \in Declared :
                     ( /\ IsVariantOf(V, U)
                       /\ ~DeclaresOneOf(V)
                       /\ \A W \in Declared : IsVariantOf(V, W) => W = U )
                     => map[V] = TypeInfo("golang", "variant of union type", U)
               /\ \A R \in Declared :
                     ( /\ DeclaresOneOf(U)
                       /\ R \notin seeds
                       /\ HasPropertyRef(R, U)
                       /\ \A T \in expected : DependsOn(R, T) => T = U )
                     => map[R] = TypeInfo("golang", "references union type", U)

\* C2 witness: the example of the documentation: Pet is a union of Dog and
\* Cat, Owner has a property $ref to Pet, and Dog and Cat are plain objects
\* without references.
C2_Witness ==
    /\ pc = "done"
    /\ result # << >>
    /\ [ i \in DOMAIN doc |-> doc[i].name ] = GraphNames
    /\ DeclaresOneOf(GraphNames[1])
    /\ IsVariantOf(GraphNames[2], GraphNames[1])
    /\ IsVariantOf(GraphNames[3], GraphNames[1])
    /\ ~DeclaresOneOf(GraphNames[2])
    /\ ~DeclaresOneOf(GraphNames[3])
    /\ ~DeclaresOneOf(GraphNames[4])
    /\ HasPropertyRef(GraphNames[4], GraphNames[1])
    /\ result[1].TypeMap[GraphNames[4]]
         = TypeInfo("golang", "references union type", GraphNames[1])

\* The elements of a sequence are pairwise distinct
Injective(q) == \A i, j \in DOMAIN q : i # j => q[i] # q[j]

\* A message and the messages nested in it, at any depth
RECURSIVE WithNested(_)
WithNested(msg) ==
    { msg } \cup UNION { WithNested(msg.Nested[k]) : k \in DOMAIN msg.Nested }

AllMessages == UNION { WithNested(ctx.Messages[k]) : k \in DOMAIN ctx.Messages }

FieldNames(msg) == [ k \in DOMAIN msg.Fields |-> msg.Fields[k].Name ]

TopLevelNames ==
    [ k \in DOMAIN ctx.Definitions |->
        IF ctx.Definitions[k].kind = "enum"
        THEN ctx.Enums[ctx.Definitions[k].idx].Name
        ELSE ctx.Messages[ctx.Definitions[k].idx].Name ]

\* C3: the names UniqueName returns on one tracker are pairwise distinct:
\* the top-level Message/Enum names of a conversion are pairwise distinct
\* and so are the field names within every Message.
C3_NamesCollisionFree ==
    /\ Injective(TopLevelNames)
    /\ \A m \in AllMessages : Injective(FieldNames(m))

\* The part of C3 that the code keeps: top-level names are pairwise distinct.
C3_TopLevelNamesDistinct == Injective(TopLevelNames)

\* The schemas of the document are objects with scalar properties and enums
\* only, so that the k-th definition is built from the k-th schema.
PlainDoc ==
    \A i \in DOMAIN doc :
       /\ Len(doc[i].oneOf) = 0
       /\ isEnumSchema(doc[i]) \/ contains(doc[i].type, "object")
       /\ \A k \in DOMAIN doc[i].props :
             /\ ~IsReference(doc[i].props[k])
             /\ ~isEnumSchema(doc[i].props[k])
             /\ ~contains(doc[i].props[k].type, "object")
             /\ ~contains(doc[i].props[k].type, "array")

DocNames == [ i \in DOMAIN doc |-> doc[i].name ]

\* How many of the first j schemas ask for the candidate of the j-th
RequestNumber(j) ==
    Cardinality({ i \in 1 .. j : ToPascalCase(doc[i].name) = ToPascalCase(doc[j].name) })

sUser2 == << "U","s","e","r","_","2" >>

sUser3 == << "U","s","e","r","_","3" >>

sItem2 == << "I","t","e","m","_","2" >>

\* C4: UniqueName returns the candidate on its first request and
\* candidate_k on its k-th; messages and enums share the top-level tracker:
\* User, user, USER are emitted as User, User_2, User_3, and an object Item
\* followed by an enum item as Item, Item_2.
C4_SuffixPerRequest ==
    PlainDoc =>
        /\ \A j \in DOMAIN ctx.Definitions :
              TopLevelNames[j] =
                  IF RequestNumber(j) = 1 THEN ToPascalCase(doc[j].name)
                  ELSE ToPascalCase(doc[j].name) \o << "_" >> \o IntToStr(RequestNumber(j))
        /\ (pc = "done" /\ DocNames = << sUser, StrToLower(sUser), StrToUpper(sUser) >>)
              => TopLevelNames = << sUser, sUser2, sUser3 >>
        /\ (pc = "done" /\ DocNames = << sItem, StrToLower(sItem) >>)
              => TopLevelNames = << sItem, sItem2 >>

\* C4 witness: User, user, USER converted, the third an enum after two
\* messages.
C4_Witness ==
    /\ pc = "done"
    /\ err = NoErr
    /\ DocNames = << sUser, StrToLower(sUser), StrToUpper(sUser) >>
    /\ isEnumSchema(doc[3])
    /\ ~isEnumSchema(doc[1])
    /\ Len(ctx.Definitions) = 3
    /\ ctx.Enums[1].Name = sUser3

\* The objects a node declares: itself when it is an object, and the inline
\* objects of its properties and array items, each under the name a message
\* is built for it.
RECURSIVE ObjectsIn(_, _)
ObjectsIn(node, name) ==
    (IF contains(node.type, "object") /\ ~isEnumSchema(node)
     THEN { [ name |-> name, props |-> node.props ] } ELSE { })
    \cup UNION { ObjectsIn(node.props[k], node.props[k].name) : k \in DOMAIN node.props }
    \cup UNION { ObjectsIn(node.items[k], name) : k \in DOMAIN node.items }

SourceObjects == UNION { ObjectsIn(doc[i], doc[i].name) : i \in DOMAIN doc }

BuiltFrom(m, o) == m.OriginalSchema = o.name /\ Len(m.Fields) = Len(o.props)

\* The properties of an object that carry an x-proto-number
Carrying(o) == { k \in DOMAIN o.props : o.props[k].xnum # NoNumber }

\* C5: in a message none of whose properties carries an override, the i-th
\* declared property is the i-th field and has number i; this holds for
\* nested messages too, whatever the numbers of the parent are.
C5_SequentialNumbers ==
    \A m \in AllMessages : \A o \in SourceObjects :
        (BuiltFrom(m, o) /\ Carrying(o) = { }) =>
            \A i \in DOMAIN m.Fields :
                /\ m.Fields[i].JSONName = o.props[i].name
                /\ m.Fields[i].Number = i

\* C5 witness: a parent numbered 5 and 2 by overrides whose nested message
\* profile, without overrides, is numbered 1, 2.
C5_Witness ==
    /\ pc = "done"
    /\ err = NoErr
    /\ Len(ctx.Messages) = 1
    /\ [ k \in DOMAIN ctx.Messages[1].Fields |-> ctx.Messages[1].Fields[k].Number ] = << 5, 2 >>
    /\ Len(ctx.Messages[1].Nested) = 1
    /\ ctx.Messages[1].Nested[1].OriginalSchema = sProfile
    /\ [ k \in 1 .. 2 |-> ctx.Messages[1].Nested[1].Fields[k].Number ] = << 1, 2 >>
    /\ \E o \in SourceObjects : o.name = sProfile /\ Carrying(o) = { }

\* The override texts the documents use that denote an acceptable number
OverrideValue ==
    (<< "1" >> :> 1) @@ (<< "2" >> :> 2) @@ (<< "3" >> :> 3) @@ (<< "5" >> :> 5)
    @@ (<< "1","8","9","9","9" >> :> 18999) @@ (<< "2","0","0","0","0" >> :> 20000)
    @@ (<< "5","3","6","8","7","0","9","1","1" >> :> 536870911)

\* The override texts that must be rejected, with the message and the number
\* the error carries
RejectedOverride ==
    (<< "a","b","c" >> :> [ msg |-> "x-proto-number must be a valid integer", a |-> 0 ])
    @@ (<< "3",".","1","4" >> :> [ msg |-> "x-proto-number must be a valid integer", a |-> 0 ])
    @@ (<< "0" >> :> [ msg |-> "x-proto-number must be between 1 and 536870911", a |-> 0 ])
    @@ (<< "-","1" >> :> [ msg |-> "x-proto-number must be between 1 and 536870911", a |-> 0 - 1 ])
    @@ (<< "5","3","6","8","7","0","9","1","2" >> :>
           [ msg |-> "x-proto-number must be between 1 and 536870911", a |-> 536870912 ])
    @@ (<< "1","9","0","0","0" >> :> [ msg |-> "is in reserved range 19000-19999", a |-> 19000 ])
    @@ (<< "1","9","5","0","0" >> :> [ msg |-> "is in reserved range 19000-19999", a |-> 19500 ])
    @@ (<< "1","9","9","9","9" >> :> [ msg |-> "is in reserved range 19000-19999", a |-> 19999 ])

ValueMessages ==
    { "x-proto-number must be a valid integer",
      "x-proto-number must be between 1 and 536870911",
      "is in reserved range 19000-19999" }

FieldNumberMessages ==
    ValueMessages \cup { "duplicate x-proto-number",
                         "x-proto-number must be specified on all fields or none" }

\* The document is one object schema and Convert is past it
OneSchemaBuilt == Len(doc) = 1 /\ idx > 1 /\ contains(doc[1].type, "object")

TopObject == [ name |-> doc[1].name, props |-> doc[1].props ]

\* Every override of the object is an acceptable number
AllAccepted(o) == \A k \in Carrying(o) : o.props[k].xnum \in DOMAIN OverrideValue

\* No two overrides of the object are the same number
AllDistinct(o) ==
    \A j, k \in Carrying(o) : j # k => o.props[j].xnum # o.props[k].xnum

C6_AcceptedWitness ==
    /\ pc = "done"
    /\ err = NoErr
    /\ Len(ctx.Messages) = 1
    /\ doc[1].props[1].xnum = << "5","3","6","8","7","0","9","1","1" >>
    /\ ctx.Messages[1].Fields[1].Number = 536870911

FieldNumbers(msg) == [ k \in DOMAIN msg.Fields |-> msg.Fields[k].Number ]

C7_BuiltWitness ==
    /\ pc = "done"
    /\ err = NoErr
    /\ \E m \in AllMessages :
          /\ FieldNumbers(m) = << 5, 1 >>
          /\ Len(m.Nested) = 1
          /\ FieldNumbers(m.Nested[1]) = << 2, 5 >>

\* Overrides on some but not all properties of the object
Partial(o) ==
    Cardinality(Carrying(o)) > 0 /\ Cardinality(Carrying(o)) < Len(o.props)

PartialObjects == { o \in SourceObjects : Partial(o) }

C8_BuiltWitness ==
    /\ pc = "done"
    /\ err = NoErr
    /\ OneSchemaBuilt
    /\ Carrying(TopObject) = { }
    /\ \E o \in SourceObjects : o.name = sProfile /\ Cardinality(Carrying(o)) = 2
    /\ Len(ctx.Messages) = 1

sZebra == << "z","e","b","r","a" >>

sApple == << "a","p","p","l","e" >>

sBanana == << "b","a","n","a","n","a" >>

NamedNumbers(msg) ==
    [ k \in DOMAIN msg.Fields |-> << msg.Fields[k].JSONName, msg.Fields[k].Number >> ]

RECURSIVE EnumsIn(_)
RECURSIVE EnumsInAll(_)
EnumsIn(node) ==
    IF isEnumSchema(node) THEN << node.enum >>
    ELSE EnumsInAll(node.props) \o EnumsInAll(node.items)

EnumsInAll(nodes) ==
    IF nodes = << >> THEN << >> ELSE EnumsIn(Head(nodes)) \o EnumsInAll(Tail(nodes))

SourceEnums == EnumsInAll(doc)

sItem2Unspecified ==
    << "I","T","E","M","_","2","_","U","N","S","P","E","C","I","F","I","E","D" >>

sItem2Active == << "I","T","E","M","_","2","_","A","C","T","I","V","E" >>

sItem2InProgress ==
    << "I","T","E","M","_","2","_","I","N","_","P","R","O","G","R","E","S","S" >>

\* C10: every built enum, top-level or hoisted, starts with the value
\* <SNAKE_UPPER(emitted name)>_UNSPECIFIED = 0, and its i-th source literal
\* is its value number i; the enum item declared after the object Item has
\* the values ITEM_2_UNSPECIFIED = 0, ITEM_2_ACTIVE = 1,
\* ITEM_2_IN_PROGRESS = 2.
C10_EnumValues ==
    /\ Len(ctx.Enums) <= Len(SourceEnums)
    /\ \A k \in DOMAIN ctx.Enums :
          LET e == ctx.Enums[k]
          IN  /\ Len(e.Values) = Len(SourceEnums[k]) + 1
              /\ e.Values[1].Number = 0
              /\ e.Values[1].Name = StrToUpper(ToSnakeCase(e.Name)) \o UnspecifiedSuffix
              /\ \A i \in 1 .. Len(SourceEnums[k]) :
                    /\ e.Values[i + 1].Number = i
                    /\ e.Values[i + 1].Name = ToEnumValueName(e.Name, SourceEnums[k][i])
    /\ (pc = "done" /\ PlainDoc /\ DocNames = << sItem, StrToLower(sItem) >>
          /\ ~isEnumSchema(doc[1]) /\ isEnumSchema(doc[2]))
       => /\ Len(ctx.Enums) = 1
          /\ ctx.Enums[1].Values =
                << [ Name |-> sItem2Unspecified, Number |-> 0 ],
                   [ Name |-> sItem2Active, Number |-> 1 ],
                   [ Name |-> sItem2InProgress, Number |-> 2 ] >>

\* C10 witness: a hoisted enum with three literals has been built after a
\* top-level enum.
C10_Witness ==
    /\ pc = "done"
    /\ err = NoErr
    /\ Len(ctx.Enums) = 2
    /\ Len(ctx.Enums[2].Values) = 4
    /\ ctx.Enums[2].Values[4].Number = 3
    /\ isEnumSchema(doc[1])
    /\ \E i \in DOMAIN doc : \E k \in DOMAIN doc[i].props : isEnumSchema(doc[i].props[k])

sSTATUS == << "S","T","A","T","U","S" >>

sCODE == << "C","O","D","E" >>

\* The value names the examples give, by emitted enum name and literal
EnumValueTable ==
    (<< << "S","t","a","t","u","s" >>, sActive >> :> sSTATUS \o << "_","A","C","T","I","V","E" >>)
    @@ (<< << "S","t","a","t","u","s" >>, sInProgress >> :>
           sSTATUS \o << "_","I","N","_","P","R","O","G","R","E","S","S" >>)
    @@ (<< sCode, s404 >> :> sCODE \o << "_","4","0","4" >>)
    @@ (<< << "S","t","a","t","u","s" >>, sIsActive >> :>
           sSTATUS \o << "_","I","S","_","A","C","T","I","V","E" >>)

\* The digits of a string, in order
Digits(s) == SelectSeq(s, LAMBDA ch : ch \in Range(DigitChars))

\* C11: the value name ToEnumValueName gives a literal of an enum is upper
\* case, without dashes, keeps the digits of the literal, and is
\* STATUS_ACTIVE for (Status, active), STATUS_IN_PROGRESS for (Status,
\* in-progress), CODE_404 for (Code, 404) and STATUS_IS_ACTIVE for (Status,
\* isActive).
C11_EnumValueNames ==
    \A k \in DOMAIN ctx.Enums :
        k <= Len(SourceEnums) =>
            \A i \in DOMAIN SourceEnums[k] :
                LET name    == ctx.Enums[k].Values[i + 1].Name
                    literal == SourceEnums[k][i]
                IN  /\ \A j \in DOMAIN name :
                          name[j] # "-" /\ name[j] \notin Range(LowerChars)
                    /\ Digits(name) = Digits(ctx.Enums[k].Name) \o Digits(literal)
                    /\ << ctx.Enums[k].Name, literal >> \in DOMAIN EnumValueTable
                          => name = EnumValueTable[<< ctx.Enums[k].Name, literal >>]

\* C11 witness: the enum Status with the literals in-progress and isActive
\* has been built.
C11_Witness ==
    /\ pc = "done"
    /\ err = NoErr
    /\ Len(doc) = 1
    /\ doc[1].enum = << sInProgress, sIsActive >>
    /\ Len(ctx.Enums) = 1
    /\ ctx.Enums[1].Name = << "S","t","a","t","u","s" >>
    /\ ctx.Enums[1].Values[2].Name = EnumValueTable[<< ctx.Enums[1].Name, sInProgress >>]
    /\ ctx.Enums[1].Values[3].Name = EnumValueTable[<< ctx.Enums[1].Name, sIsActive >>]

\* The scalar the mapping table gives a type and a format
TableScalar(typ, format) ==
    IF typ = "integer"
    THEN (IF format = "int64" THEN << "i","n","t","6","4" >> ELSE << "i","n","t","3","2" >>)
    ELSE IF typ = "number"
    THEN (IF format = "float" THEN << "f","l","o","a","t" >>
          ELSE << "d","o","u","b","l","e" >>)
    ELSE IF typ = "string"
    THEN (IF format \in { "byte", "binary" } THEN << "b","y","t","e","s" >>
          ELSE << "s","t","r","i","n","g" >>)
    ELSE << "b","o","o","l" >>

TableTypes == { "integer", "number", "string", "boolean" }

\* The property is a scalar: no reference, array, object or enum, one type
PlainScalar(p) ==
    /\ ~IsReference(p)
    /\ ~isEnumSchema(p)
    /\ Len(p.type) = 1
    /\ p.type[1] \notin { "array", "object" }

C12_RejectedWitness ==
    /\ OneSchemaBuilt
    /\ Len(doc[1].props) = 2
    /\ doc[1].props[2].type = << "null" >>
    /\ err.msg = "unsupported type"

\* The schemas of the document are enums and objects whose properties are
\* scalars or references, so that the k-th definition is built from the
\* k-th schema.
ReferenceDoc ==
    \A i \in DOMAIN doc :
       /\ Len(doc[i].oneOf) = 0
       /\ isEnumSchema(doc[i]) \/ contains(doc[i].type, "object")
       /\ \A k \in DOMAIN doc[i].props :
             IsReference(doc[i].props[k]) \/ PlainScalar(doc[i].props[k])

\* The position of the schema a reference resolves to
TargetOf(ref) == CHOOSE t \in DOMAIN doc : doc[t].name = LastSegment(ref)

\* The reference properties of the j-th schema
ReferenceProps(j) == { k \in DOMAIN doc[j].props : IsReference(doc[j].props[k]) }

\* C13: a property that is a $ref to a schema T of the document becomes a
\* field that is not repeated and whose type is the name T's message or enum
\* is emitted under (PascalCase, with the collision suffix of the top-level
\* tracker); a reference that is unresolved or points to another file aborts
\* the conversion with an error.
C13_ReferenceType ==
    /\ (pc = "done" /\ err = NoErr /\ ReferenceDoc) =>
          \A j \in DOMAIN doc : \A k \in ReferenceProps(j) :
              /\ ctx.Messages[ctx.Definitions[j].idx].Fields[k].Type
                    = TopLevelNames[TargetOf(doc[j].props[k].ref)]
              /\ ~ctx.Messages[ctx.Definitions[j].idx].Fields[k].Repeated
    /\ (pc = "done" /\ HasUnresolved(doc)) => (err # NoErr /\ result = << >>)

\* The part of C13 that the code keeps: the field is not repeated and its
\* type is the last segment of the reference, the declared name of T; an
\* unresolved or external reference aborts the conversion.
C13_ReferenceSegment ==
    /\ (pc = "done" /\ err = NoErr /\ ReferenceDoc) =>
          \A j \in DOMAIN doc : \A k \in ReferenceProps(j) :
              /\ ctx.Messages[ctx.Definitions[j].idx].Fields[k].Type
                    = doc[TargetOf(doc[j].props[k].ref)].name
              /\ ~ctx.Messages[ctx.Definitions[j].idx].Fields[k].Repeated
    /\ (pc = "done" /\ HasUnresolved(doc)) => (err # NoErr /\ result = << >>)

\* The property is an array: no reference, and array among its types
IsArray(p) == ~IsReference(p) /\ contains(p.type, "array")

\* An array property whose conversion must fail: it has no items, or its
\* items are an array
NoItems(p) == IsArray(p) /\ p.items = << >>

NestedArray(p) ==
    IsArray(p) /\ p.items # << >> /\ ~IsReference(p.items[1])
    /\ contains(p.items[1].type, "array")

\* The document is the one of a schema and an object of two properties,
\* the first a string, that is converted as far as the second property
ArrayDoc ==
    /\ Len(doc) = 2
    /\ contains(doc[2].type, "object")
    /\ Len(doc[2].props) = 2
    /\ doc[2].props[1] = ScalarNode(sId, "string")
    /\ pc = "done"
    /\ Len(ctx.Definitions) >= 1

\* C14: an array property becomes one repeated field whose type is the type
\* of its items, the scalar of the table or the name an item $ref refers to;
\* a property that is no array is never repeated; an array without items
\* fails with 'array must have items defined' and an array of arrays with
\* 'nested arrays not supported'.
C14_Arrays ==
    /\ \A m \in AllMessages : \A o \in SourceObjects :
          BuiltFrom(m, o) =>
              \A i \in DOMAIN o.props :
                  /\ m.Fields[i].Repeated <=> IsArray(o.props[i])
                  /\ ~NoItems(o.props[i]) /\ ~NestedArray(o.props[i])
                  /\ (IsArray(o.props[i]) /\ IsReference(o.props[i].items[1]))
                        => m.Fields[i].Type = LastSegment(o.props[i].items[1].ref)
                  /\ (IsArray(o.props[i]) /\ PlainScalar(o.props[i].items[1]))
                        => m.Fields[i].Type = TableScalar(o.props[i].items[1].type[1],
                                                         o.props[i].items[1].format)
    /\ (ArrayDoc /\ NoItems(doc[2].props[2]))
          => (err.msg = "array must have items defined" /\ result = << >>)
    /\ (ArrayDoc /\ NestedArray(doc[2].props[2]))
          => (err.msg = "nested arrays not supported" /\ result = << >>)

\* C14 witness: the array tags of $refs to User has become the repeated
\* field tags of type User.
C14_Witness ==
    /\ pc = "done"
    /\ err = NoErr
    /\ Len(doc) = 2
    /\ Len(doc[2].props) = 2
    /\ doc[2].props[2] = ArrayNode(sTags, RefNode(<< >>, sUser))
    /\ \E m \in AllMessages :
          /\ m.Name = sRec
          /\ Len(m.Fields) = 2
          /\ m.Fields[2].Repeated
          /\ m.Fields[2].Type = sUser
          /\ ~m.Fields[1].Repeated

\* C14 witness of rejection: an array of arrays has failed the conversion.
C14_RejectedWitness ==
    /\ ArrayDoc
    /\ NestedArray(doc[2].props[2])
    /\ err.msg = "nested arrays not supported"

\* An array property whose items are an inline enum / an inline object
InlineEnumArray(p) ==
    IsArray(p) /\ p.items # << >> /\ ~IsReference(p.items[1])
    /\ ~contains(p.items[1].type, "array") /\ isEnumSchema(p.items[1])

InlineObjectArray(p) ==
    IsArray(p) /\ p.items # << >> /\ ~IsReference(p.items[1])
    /\ ~contains(p.items[1].type, "array") /\ ~isEnumSchema(p.items[1])
    /\ contains(p.items[1].type, "object")

\* An array property of scalars of the table or of $refs to declared schemas
PlainArray(p) ==
    IsArray(p) /\ p.items # << >>
    /\ IF IsReference(p.items[1]) THEN Schema(doc, p.items[1]) # << >>
       ELSE PlainScalar(p.items[1]) /\ p.items[1].type[1] \in TableTypes

\* The hoisted type of an array property: an enum of the items' literals or
\* a message of the items' properties, under the given name
HoistedAs(p, name) ==
    IF isEnumSchema(p.items[1])
    THEN \E k \in DOMAIN ctx.Enums :
            /\ ctx.Enums[k].Name = name
            /\ Len(ctx.Enums[k].Values) = Len(p.items[1].enum) + 1
    ELSE \E n \in AllMessages :
            /\ n.Name = name
            /\ n.OriginalSchema = p.name
            /\ Len(n.Fields) = Len(p.items[1].props)

\* C15: an array of inline objects or inline enums under a property name
\* ending in s or es fails with 'cannot derive message/enum name from plural
\* array property', an error that names the property; under any other name
\* a type named ToPascalCase(property name) is hoisted and is the type of
\* the repeated field; arrays of scalars or of $refs are accepted whatever
\* the property name.
C15_PluralArrays ==
    /\ \A m \in AllMessages : \A o \in SourceObjects :
          BuiltFrom(m, o) =>
              \A i \in DOMAIN o.props :
                  (InlineEnumArray(o.props[i]) \/ InlineObjectArray(o.props[i])) =>
                      /\ ~IsPlural(o.props[i].name)
                      /\ m.Fields[i].Repeated
                      /\ m.Fields[i].Type = ToPascalCase(o.props[i].name)
                      /\ HoistedAs(o.props[i], ToPascalCase(o.props[i].name))
    /\ (ArrayDoc /\ IsPlural(doc[2].props[2].name) /\ InlineEnumArray(doc[2].props[2]))
          => /\ err.msg = "cannot derive enum name from plural array property"
             /\ NamesProperty(err, doc[2].props[2].name)
             /\ result = << >>
    /\ (ArrayDoc /\ IsPlural(doc[2].props[2].name) /\ InlineObjectArray(doc[2].props[2]))
          => /\ err.msg = "cannot derive message name from plural array property"
             /\ NamesProperty(err, doc[2].props[2].name)
             /\ result = << >>
    /\ (ArrayDoc /\ PlainArray(doc[2].props[2])) => err = NoErr

\* The part of C15 that the code keeps: the plural names are rejected, the
\* other arrays of inline types become repeated fields, and plain arrays
\* are accepted under any name.
C15_PluralRejected ==
    /\ \A m \in AllMessages : \A o \in SourceObjects :
          BuiltFrom(m, o) =>
              \A i \in DOMAIN o.props :
                  (InlineEnumArray(o.props[i]) \/ InlineObjectArray(o.props[i])) =>
                      /\ ~IsPlural(o.props[i].name)
                      /\ m.Fields[i].Repeated
    /\ (ArrayDoc /\ IsPlural(doc[2].props[2].name) /\ InlineEnumArray(doc[2].props[2]))
          => /\ err.msg = "cannot derive enum name from plural array property"
             /\ NamesProperty(err, doc[2].props[2].name)
    /\ (ArrayDoc /\ IsPlural(doc[2].props[2].name) /\ InlineObjectArray(doc[2].props[2]))
          => /\ err.msg = "cannot derive message name from plural array property"
             /\ NamesProperty(err, doc[2].props[2].name)
    /\ (ArrayDoc /\ PlainArray(doc[2].props[2])) => err = NoErr

\* The property is an inline object: no reference, no array, type object
InlineObject(p) ==
    ~IsReference(p) /\ ~contains(p.type, "array") /\ contains(p.type, "object")

\* The document is one object without overrides whose first property is a
\* scalar and whose second is an inline object of scalars with a name that
\* SanitizeFieldName accepts, and its conversion has ended
InlineDoc ==
    /\ pc = "done"
    /\ Len(doc) = 1
    /\ contains(doc[1].type, "object")
    /\ Len(doc[1].oneOf) = 0
    /\ Len(doc[1].props) = 2
    /\ PlainScalar(doc[1].props[1])
    /\ doc[1].props[1].type[1] \in TableTypes
    /\ InlineObject(doc[1].props[2])
    /\ SanitizeFieldName(doc[1].props[2].name).err = ""
    /\ Carrying(doc[1]) = { }
    /\ Carrying(doc[1].props[2]) = { }
    /\ \A k \in DOMAIN doc[1].props[2].props :
          /\ PlainScalar(doc[1].props[2].props[k])
          /\ doc[1].props[2].props[k].type[1] \in TableTypes
          /\ SanitizeFieldName(doc[1].props[2].props[k].name).err = ""

\* C16: a property that is an inline object is accepted under every name
\* that can be sanitized; it yields a nested message in the Nested list of
\* the enclosing message, named ToPascalCase(property name), and the field
\* has that name as its type: address inside User yields the nested message
\* Address and the field 'Address address = 2'.
C16_InlineObject ==
    InlineDoc =>
        /\ err = NoErr
        /\ Len(ctx.Messages) = 1
        /\ Len(ctx.Messages[1].Nested) = 1
        /\ ctx.Messages[1].Nested[1].Name = ToPascalCase(doc[1].props[2].name)
        /\ Len(ctx.Messages[1].Nested[1].Fields) = Len(doc[1].props[2].props)
        /\ ctx.Messages[1].Fields[2].Type = ToPascalCase(doc[1].props[2].name)
        /\ ctx.Messages[1].Fields[2].Number = 2
        /\ ~ctx.Messages[1].Fields[2].Repeated

\* The part of C16 that the code keeps: under a name that does not end in
\* s the inline object yields the nested message and the field; under a
\* name that ends in s the conversion fails and names the property.
C16_SingularInlineObject ==
    InlineDoc =>
        IF IsPlural(doc[1].props[2].name)
        THEN /\ err.msg = "cannot derive message name from property"
             /\ NamesProperty(err, doc[1].props[2].name)
             /\ ctx.Messages = << >>
             /\ result = << >>
        ELSE /\ err = NoErr
             /\ Len(ctx.Messages) = 1
             /\ Len(ctx.Messages[1].Nested) = 1
             /\ ctx.Messages[1].Nested[1].Name = ToPascalCase(doc[1].props[2].name)
             /\ ctx.Messages[1].Fields[2].Type = ToPascalCase(doc[1].props[2].name)
             /\ ~ctx.Messages[1].Fields[2].Repeated

\* C17: every field of every message, top-level or nested, has a JSONName,
\* and it is the property name as declared, also where sanitization or a
\* collision suffix has changed the field name.
C17_JSONName ==
    \A m \in AllMessages :
        /\ \A i \in DOMAIN m.Fields : m.Fields[i].JSONName # << >>
        /\ \A o \in SourceObjects :
              BuiltFrom(m, o) =>
                  \A i \in DOMAIN m.Fields : m.Fields[i].JSONName = o.props[i].name

\* C17 witness: the properties a-b and a.b of Rec have become the fields
\* a_b and a_b_2 with the JSON names a-b and a.b.
C17_Witness ==
    /\ pc = "done"
    /\ err = NoErr
    /\ Len(doc) = 1
    /\ Len(ctx.Messages) = 1
    /\ Len(ctx.Messages[1].Fields) >= 2
    /\ doc[1].props[1].name = << "a","-","b" >>
    /\ doc[1].props[2].name = << "a",".","b" >>
    /\ ctx.Messages[1].Fields[1].Name = << "a","_","b" >>
    /\ ctx.Messages[1].Fields[1].JSONName = << "a","-","b" >>
    /\ ctx.Messages[1].Fields[2].Name = << "a","_","b","_","2" >>
    /\ ctx.Messages[1].Fields[2].JSONName = << "a",".","b" >>

\* C17 witness for a nested message: the fields of the nested message
\* Profile carry the names of the properties of profile.
C17_NestedWitness ==
    /\ pc = "done"
    /\ err = NoErr
    /\ doc \in InlineDocs
    /\ Len(ctx.Messages) = 1
    /\ Len(ctx.Messages[1].Nested) = 1
    /\ [ i \in DOMAIN ctx.Messages[1].Nested[1].Fields |->
            ctx.Messages[1].Nested[1].Fields[i].JSONName ] = << sStreet, sCity >>

\* The three requirements on a schema that declares oneOf
ValidUnion(schema) ==
    /\ Len(schema.oneOf) >= 2
    /\ schema.disc # << >>
    /\ \A i \in DOMAIN schema.oneOf : IsReference(schema.oneOf[i])

\* The schemas of the document that declare a oneOf violating a requirement
InvalidUnions == { i \in DOMAIN doc : Len(doc[i].oneOf) > 0 /\ ~ValidUnion(doc[i]) }

\* The messages of the errors about oneOf
OneOfMessages ==
    { "oneOf must have at least 2 variants", "oneOf requires discriminator",
      "oneOf variant must use $ref, inline schemas not supported" }

\* The schemas of the document that use allOf, anyOf or not
Compositions ==
    { i \in DOMAIN doc : doc[i].allOf > 0 \/ doc[i].anyOf > 0 \/ doc[i].hasNot }

\* C18: a schema declaring oneOf is accepted only with at least two
\* variants, a discriminator property name and $ref variants only; a
\* violation of any of the three makes BuildMessages return an error for
\* that schema before ComputeTransitiveClosure, and a schema that meets the
\* three is never rejected for its oneOf.
C18_OneOfValidation ==
    /\ pc \in { "second", "classify", "generate" } => InvalidUnions = { }
    /\ result # << >> => InvalidUnions = { }
    /\ (pc = "done" /\ InvalidUnions # { } /\ input = ValidInput /\ ~HasUnresolved(doc))
          => /\ err # NoErr
             /\ classes = NoClasses
             /\ ctx = NewContext
             /\ Compositions = { } =>
                   /\ err.msg \in OneOfMessages
                   /\ \E i \in InvalidUnions :
                         /\ err.schema = doc[i].name
                         /\ \A j \in InvalidUnions : i <= j
    /\ err.msg \in OneOfMessages
          => /\ pc = "done"
             /\ classes = NoClasses
             /\ \E i \in InvalidUnions : err.schema = doc[i].name

\* C18 witness: Pet, declared last with two $ref variants and no
\* discriminator, has ended the conversion in the first pass.
C18_Witness ==
    /\ pc = "done"
    /\ Len(doc) = 3
    /\ doc[3] = OneOfNode(sPet, << RefNode(<< >>, sDog), RefNode(<< >>, sCat) >>, << >>)
    /\ err = SchemaError(sPet, Err("oneOf requires discriminator"))
    /\ classes = NoClasses
    /\ ctx = NewContext

\* C18 witness of acceptance: Pet with the discriminator and two $ref
\* variants has been classified.
C18_AcceptedWitness ==
    /\ pc = "done"
    /\ err = NoErr
    /\ Len(doc) = 3
    /\ doc[1] = OneOfNode(sPet, << RefNode(<< >>, sDog), RefNode(<< >>, sCat) >>, sPetType)
    /\ sPet \in classes.goTypes
    /\ result # << >>

\* The message of the error for the composition keyword a schema uses
KeywordMessage(schema) ==
    IF schema.allOf > 0 THEN "uses 'allOf' which is not supported"
    ELSE IF schema.anyOf > 0 THEN "uses 'anyOf' which is not supported"
    ELSE "uses 'not' which is not supported"

C20_ValidationWitness ==
    pc = "done" /\ err = Err("package path cannot be empty") /\ result = << >>

C20_ParseWitness ==
    pc = "done" /\ err = Err("failed to parse OpenAPI document") /\ result = << >>

C20_BuildWitness ==
    /\ pc = "done"
    /\ err.msg = "unsupported type"
    /\ ctx.Tracker # NewNameTracker
    /\ result = << >>

C20_ResultWitness ==
    /\ pc = "done"
    /\ err = NoErr
    /\ result # << >>
    /\ result[1].hasProto
    /\ result[1].hasGo

C21_ErrorWitness ==
    /\ first # << >>
    /\ pc = "done"
    /\ err.msg = "oneOf requires discriminator"
    /\ first[1].err = err

\* How many of the first j schemas are of the kind of the j-th
KindNumber(j) ==
    Cardinality({ i \in 1 .. j : isEnumSchema(doc[i]) <=> isEnumSchema(doc[j]) })

\* The kinds of the definitions, in their order
DefinitionKinds == [ k \in DOMAIN ctx.Definitions |-> ctx.Definitions[k].kind ]

\* C22: Definitions lists the enums and messages of the top-level schemas
\* in declaration order, interleaved and not grouped by kind: the k-th
\* definition is the enum or message of the k-th schema, and the output is
\* rendered in the same order (enum Status, object User, enum Priority come
\* out as Status, User, Priority).
C22_DeclarationOrder ==
    PlainDoc =>
        /\ Len(ctx.Definitions) <= Len(doc)
        /\ pc = "second" => Len(ctx.Definitions) = idx - 1
        /\ (pc \in { "classify", "generate" } \/ (pc = "done" /\ err = NoErr))
              => Len(ctx.Definitions) = Len(doc)
        /\ \A k \in DOMAIN ctx.Definitions :
              /\ ctx.Definitions[k].kind = IF isEnumSchema(doc[k]) THEN "enum" ELSE "message"
              /\ ctx.Definitions[k].idx = KindNumber(k)
              /\ isEnumSchema(doc[k])
                    => Len(ctx.Enums[KindNumber(k)].Values) = Len(doc[k].enum) + 1
              /\ ~isEnumSchema(doc[k])
                    => ctx.Messages[KindNumber(k)].OriginalSchema = doc[k].name
        /\ result # << >> => result[1].Definitions = ctx.Definitions

\* C22 witness: an enum, an object and an enum, declared in this order,
\* are listed as enum, message, enum in the result.
C22_Witness ==
    /\ pc = "done"
    /\ err = NoErr
    /\ PlainDoc
    /\ Len(doc) = 3
    /\ isEnumSchema(doc[1]) /\ ~isEnumSchema(doc[2]) /\ isEnumSchema(doc[3])
    /\ DefinitionKinds = << "enum", "message", "enum" >>
    /\ result # << >>
    /\ result[1].Definitions = ctx.Definitions
    /\ ctx.Messages[1].OriginalSchema = doc[2].name

\* The names the top-level tracker has handed a name out for
TrackedNames == DOMAIN ctx.Tracker

\* The enums hoisted from the properties of a top-level schema: one per
\* property that is an inline enum under a name that is not plural
HoistedFrom(schema) ==
    { k \in DOMAIN schema.props :
        /\ ~IsReference(schema.props[k])
        /\ isEnumSchema(schema.props[k]) }

\* C23: a top-level schema classified golang (a oneOf schema, a variant, a
\* schema that references a union) is skipped when the IR is built: no
\* message is built from it, it takes no name from the top-level tracker,
\* no enum is hoisted from it, and nothing of it is in the proto output.
C23_GoTypesSkipped ==
    (pc \in { "generate", "done" } /\ err = NoErr) =>
        \A i \in DOMAIN doc :
            doc[i].name \in classes.goTypes =>
                /\ \A m \in Range(ctx.Messages) : m.OriginalSchema # doc[i].name
                /\ ToPascalCase(doc[i].name) \notin TrackedNames
                /\ \A k \in HoistedFrom(doc[i]) :
                      ToPascalCase(ToPascalCase(doc[i].props[k].name)) \notin TrackedNames
                /\ result # << >> =>
                      \A m \in Range(result[1].Messages) : m.OriginalSchema # doc[i].name

\* The part of C23 that the code keeps: a oneOf schema builds nothing and
\* takes no name, and no message of a golang schema is in the proto output.
C23_GoTypesFiltered ==
    (pc \in { "generate", "done" } /\ err = NoErr) =>
        \A i \in DOMAIN doc :
            /\ Len(doc[i].oneOf) > 0 =>
                  \A m \in Range(ctx.Messages) : m.OriginalSchema # doc[i].name
            /\ (doc[i].name \in classes.goTypes /\ result # << >>) =>
                  /\ \A m \in Range(result[1].Messages) : m.OriginalSchema # doc[i].name
                  /\ \A k \in DOMAIN result[1].Definitions :
                        result[1].Definitions[k].kind = "message" =>
                            ctx.Messages[result[1].Definitions[k].idx].OriginalSchema
                                # doc[i].name

-----------------------------------------------------------------------------
(* Inline enums                                                            *)

\* The property is an inline enum of the given type
InlineEnum(p, typ) == ~IsReference(p) /\ isEnumSchema(p) /\ p.type = << typ >>

\* The only enums of the document are inline string enums of properties
OnlyStringEnums ==
    \A i \in DOMAIN doc :
        /\ ~isEnumSchema(doc[i])
        /\ \A k \in DOMAIN doc[i].props :
              /\ doc[i].props[k].items = << >>
              /\ isEnumSchema(doc[i].props[k]) => InlineEnum(doc[i].props[k], "string")

\* C24: a property that is an inline enum of type string becomes a scalar
\* string field and no Enum is created for it; a property that is an inline
\* enum of type integer is hoisted to a top-level Enum whose first value is
\* UNSPECIFIED = 0 and whose other values are named from the literals, and
\* the field's type is the name of that Enum.
C24_InlineEnums ==
    /\ \A m \in AllMessages : \A o \in SourceObjects :
          BuiltFrom(m, o) =>
              \A i \in DOMAIN o.props :
                  /\ InlineEnum(o.props[i], "string") =>
                        m.Fields[i].Type = Chars.string
                  /\ InlineEnum(o.props[i], "integer") =>
                        \E k \in DOMAIN ctx.Enums :
                            /\ ctx.Enums[k].Name = m.Fields[i].Type
                            /\ ctx.Enums[k].Values[1].Number = 0
                            /\ Len(ctx.Enums[k].Values) = Len(o.props[i].enum) + 1
    /\ (pc = "done" /\ err = NoErr /\ OnlyStringEnums) => ctx.Enums = << >>

\* The part of C24 that the code keeps: an inline enum of either type is
\* hoisted to an Enum named from the property, with UNSPECIFIED = 0 first
\* and one value per literal.
C24_InlineEnumHoisted ==
    \A m \in AllMessages : \A o \in SourceObjects :
        BuiltFrom(m, o) =>
            \A i \in DOMAIN o.props :
                (InlineEnum(o.props[i], "string") \/ InlineEnum(o.props[i], "integer")) =>
                    /\ m.Fields[i].Type = ToPascalCase(o.props[i].name)
                    /\ ~m.Fields[i].Repeated
                    /\ \E k \in DOMAIN ctx.Enums :
                          /\ ctx.Enums[k].Values[1].Number = 0
                          /\ Len(ctx.Enums[k].Values) = Len(o.props[i].enum) + 1

-----------------------------------------------------------------------------
(* Field names                                                             *)

IsLetter(c) == IsLower(c) \/ IsUpper(c)

\* The name with every maximal run of invalid characters replaced by one
\* underscore; prev tells whether the character before the i-th is invalid.
RECURSIVE RunsReplaced(_, _, _)
RunsReplaced(name, i, prev) ==
    IF i > Len(name) THEN << >>
    ELSE IF isValidProtoFieldChar(name[i])
    THEN << name[i] >> \o RunsReplaced(name, i + 1, FALSE)
    ELSE (IF prev THEN << >> ELSE << "_" >>) \o RunsReplaced(name, i + 1, TRUE)

\* ... and with the underscore of a trailing run of invalid characters
\* trimmed
TrailingTrimmed(name) ==
    IF isValidProtoFieldChar(name[Len(name)]) THEN RunsReplaced(name, 1, FALSE)
    ELSE SubSeq(RunsReplaced(name, 1, FALSE), 1, Len(RunsReplaced(name, 1, FALSE)) - 1)

SanitizeDoc == Len(doc) = 1 /\ doc \in SanitizeDocs /\ pc = "done"

\* The name of the one property of Rec
RecProperty == doc[1].props[1].name

sStatusCode == << "a", "_", "Z" >>

\* C25: SanitizeFieldName fails on the empty name and on a name whose first
\* character is not an ASCII letter; otherwise it returns a name that
\* starts with an ASCII letter and consists of ASCII letters, digits and
\* underscores: the name with every maximal run of invalid characters
\* replaced by one underscore and the underscore of a trailing run trimmed;
\* a name of valid characters only is returned unchanged.
C25_SanitizeFieldName ==
    SanitizeDoc =>
        IF RecProperty = << >> \/ ~IsLetter(RecProperty[1])
        THEN err # NoErr /\ result = << >>
        ELSE /\ err = NoErr
             /\ Len(ctx.Messages) = 1
             /\ ctx.Messages[1].Fields[1].Name = TrailingTrimmed(RecProperty)

\* The part of C25 that the code keeps: the failures, the shape of the
\* returned name, and the names of valid characters, which are unchanged.
C25_SanitizedShape ==
    SanitizeDoc =>
        IF RecProperty = << >> \/ ~IsLetter(RecProperty[1])
        THEN /\ result = << >>
             /\ err.msg \in { "field name cannot be empty",
                              "field name must start with a letter",
                              "field name cannot start with underscore" }
        ELSE /\ err = NoErr
             /\ Len(ctx.Messages) = 1
             /\ LET out == ctx.Messages[1].Fields[1].Name
                IN  /\ IsLetter(out[1])
                    /\ \A k \in DOMAIN out : isValidProtoFieldChar(out[k])
                    /\ (\A k \in DOMAIN RecProperty : isValidProtoFieldChar(RecProperty[k]))
                          => out = RecProperty
                    /\ RecProperty \in { << "a", "-", "Z" >>, << "a", ".", "Z" >> }
                          => out = sStatusCode

-----------------------------------------------------------------------------
(* Termination of the closure                                              *)

\* The schemas marked so far
Marked == DOMAIN classes.reasons

\* Some schema depends on itself, directly or through others
RECURSIVE ReachesFrom(_, _)
ReachesFrom(S, k) ==
    IF k = 0 THEN S
    ELSE ReachesFrom(S \cup { e[2] : e \in { x \in Range(graph.edges) : x[1] \in S } }, k - 1)

HasCycle ==
    \E e \in Range(graph.edges) :
        e[1] \in ReachesFrom({ e[2] }, Len(graph.edges))

\* C26: ComputeClosure terminates on every dependency graph, cycles and
\* self-references included: a scan never removes a mark, a scan that does
\* not end the loop marks a schema that was not marked, at most |schemas|
\* schemas are marked by the scans, and the loop ends, at the fixpoint.
C26_ClosureTerminates ==
    /\ [][pc = "closure" =>
            /\ Marked \subseteq DOMAIN classes'.reasons
            /\ \A n \in Marked : classes'.reasons[n] = classes.reasons[n]
            /\ pc' = "closure" => DOMAIN classes'.reasons # Marked]_vars
    /\ [](pc = "closure" =>
            Cardinality(Marked \ DOMAIN graph.marks) <= Len(graph.schemas))
    /\ [](pc = "generate" =>
            /\ ClosureScan(graph.edges, classes.reasons, 1) = classes.reasons
            /\ classes.reasons = ComputeTransitiveClosure(graph).reasons)
    /\ (pc = "classify") ~> (pc = "generate")

\* C26 witness: the loop has ended on a graph with a cycle, after scans
\* that have marked schemas.
C26_Witness ==
    /\ pc = "generate"
    /\ HasCycle
    /\ Cardinality(Marked \ DOMAIN graph.marks) >= 2

\* C26 witness: the loop is between two scans that both mark a schema, on a
\* graph in which a schema references itself.
C26_SecondScanWitness ==
    /\ pc = "closure"
    /\ Marked # DOMAIN graph.marks
    /\ DOMAIN ClosureScan(graph.edges, classes.reasons, 1) # Marked
    /\ \E e \in Range(graph.edges) : e[1] = e[2]

-----------------------------------------------------------------------------
(* Type lists                                                              *)

TypeDoc == Len(doc) = 1 /\ doc \in TypeDocs /\ pc = "done"

\* The schema in field position: the property, or the items of the array
FieldSchema ==
    IF doc[1].props[1].items = << >> THEN doc[1].props[1] ELSE doc[1].props[1].items[1]

\* C27: in a field position (a property, the items of an array) a schema
\* with more than one type, and a schema with neither a type nor a $ref nor
\* enum literals, abort the conversion with an error; none is mapped by its
\* first type.
C27_TypeListsRejected ==
    (TypeDoc /\ Len(FieldSchema.type) # 1) => (err # NoErr /\ result = << >>)

\* The part of C27 that the code keeps: a property with several types, none
\* of them object or array, and a property or array items with no type are
\* rejected.
C27_PropertyTypesRejected ==
    /\ (TypeDoc /\ FieldSchema.type = << >>) =>
          /\ result = << >>
          /\ err.msg = IF doc[1].props[1].items = << >>
                       THEN "property must have type or $ref"
                       ELSE "array items must have a type"
    /\ (TypeDoc /\ doc[1].props[1].items = << >> /\ Len(FieldSchema.type) > 1
          /\ ~contains(FieldSchema.type, "object")) =>
          /\ result = << >>
          /\ err.msg = "multi-type properties not supported"

\* Array items with several types are mapped by the first of them.
C27_ItemsMappedByFirstType ==
    (TypeDoc /\ doc[1].props[1].items # << >> /\ Len(FieldSchema.type) > 1
       /\ ~contains(FieldSchema.type, "object")) =>
        /\ err = NoErr
        /\ ctx.Messages[1].Fields[1].Type = MapScalarType(FieldSchema.type[1], "").type

-----------------------------------------------------------------------------
(* Field types                                                             *)

ScalarKeywords == { Chars[f] : f \in DOMAIN Chars }

\* The property hoists a type: it is an inline enum or an inline object, or
\* an array of one
Hoists(p) ==
    /\ ~IsReference(p)
    /\ IF p.items = << >> THEN isEnumSchema(p) \/ contains(p.type, "object")
       ELSE /\ ~IsReference(p.items[1])
            /\ isEnumSchema(p.items[1]) \/ contains(p.items[1].type, "object")

\* The literals of the enum a property hoists (<< >> for an inline object)
HoistedLiterals(p) == IF p.items = << >> THEN p.enum ELSE p.items[1].enum

Built == pc \in { "classify", "generate", "done" } /\ err = NoErr

\* C28: the type of a field built for a property that hoists an inline
\* enum or an inline object is exactly the Name of the Enum or Message that
\* was appended for it, whatever the property name and whatever names the
\* tracker holds; the type of any other field that is no reference is a
\* proto scalar keyword.
C28_FieldTypesNamed ==
    Built =>
        \A m \in AllMessages : \A o \in SourceObjects :
            BuiltFrom(m, o) =>
                \A i \in DOMAIN o.props :
                    IF Hoists(o.props[i])
                    THEN IF HoistedLiterals(o.props[i]) # << >>
                         THEN \E k \in DOMAIN ctx.Enums :
                                 /\ ctx.Enums[k].Name = m.Fields[i].Type
                                 /\ Len(ctx.Enums[k].Values)
                                       = Len(HoistedLiterals(o.props[i])) + 1
                         ELSE \E k \in DOMAIN m.Nested :
                                 m.Nested[k].Name = m.Fields[i].Type
                    ELSE IsReference(o.props[i])
                         \/ (o.props[i].items # << >> /\ IsReference(o.props[i].items[1]))
                         \/ m.Fields[i].Type \in ScalarKeywords

\* The part of C28 that the code keeps: the type of a field built for an
\* inline object is the Name of a message nested in the field's message,
\* and the type of a field that hoists nothing and refers to nothing is a
\* scalar keyword.
C28_NestedTypesNamed ==
    Built =>
        \A m \in AllMessages : \A o \in SourceObjects :
            BuiltFrom(m, o) =>
                \A i \in DOMAIN o.props :
                    IF Hoists(o.props[i])
                    THEN HoistedLiterals(o.props[i]) = << >> =>
                            \E k \in DOMAIN m.Nested :
                                m.Nested[k].Name = m.Fields[i].Type
                    ELSE IsReference(o.props[i])
                         \/ (o.props[i].items # << >> /\ IsReference(o.props[i].items[1]))
                         \/ m.Fields[i].Type \in ScalarKeywords

-----------------------------------------------------------------------------
(* Enum values                                                             *)

ValueNames(e) == [ k \in DOMAIN e.Values |-> e.Values[k].Name ]

ValueNumbers(e) == [ k \in DOMAIN e.Values |-> e.Values[k].Number ]

\* C29: in every Enum built from pairwise distinct literals the value names
\* are pairwise distinct and the value numbers are pairwise distinct.
C29_EnumValuesDistinct ==
    \A k \in DOMAIN ctx.Enums :
        (k <= Len(SourceEnums) /\ Injective(SourceEnums[k])) =>
            /\ Injective(ValueNames(ctx.Enums[k]))
            /\ Injective(ValueNumbers(ctx.Enums[k]))

\* The part of C29 that the code keeps: the value numbers of an Enum are
\* pairwise distinct.
C29_EnumNumbersDistinct ==
    \A k \in DOMAIN ctx.Enums : Injective(ValueNumbers(ctx.Enums[k]))

-----------------------------------------------------------------------------
(* Proto output and native-struct types                                    *)

\* The types of the fields of a message
FieldTypes(msg) == { msg.Fields[k].Type : k \in DOMAIN msg.Fields }

Converted == pc = "done" /\ err = NoErr /\ result # << >>

\* C30: no message of the proto output has a field, in the message itself
\* or in a message nested in it at any depth, whose type names a schema
\* classified golang.
C30_ProtoFieldsAvoidGoTypes ==
    Converted =>
        \A m \in Range(result[1].Messages) : \A n \in WithNested(m) :
            FieldTypes(n) \cap classes.goTypes = { }

\* The part of C30 that the code keeps: no message of the proto output has
\* a field of its own whose type names a schema classified golang.
C30_DirectFieldsAvoidGoTypes ==
    Converted =>
        \A m \in Range(result[1].Messages) : FieldTypes(m) \cap classes.goTypes = { }

=============================================================================
